---- MODULE Spec2Model ----
(***************************************************************************)
(* Model of the purchase-order text extractor of gb_pdf_automation:       *)
(*   src/pdf_extractor_final.py  FinalPDFExtractor (header extraction,    *)
(*                               line-item segmentation and parsing)      *)
(*   src/app.py                  the legacy text extractor                *)
(*                               (extract_data_from_text / process_text)  *)
(*                               and the batch runs of the web app        *)
(*                               (process_folder_path, scan_and_extract,  *)
(*                               get_progress, export_excel,              *)
(*                               extract_folder_sync)                     *)
(* Texts are TLA+ strings; a character is a string of length 1.           *)
(***************************************************************************)
EXTENDS Integers, Sequences, FiniteSets, TLC

(***************************************************************************)
(* The state: a batch of documents and, per document, the value each       *)
(* extraction function returned when it was last called on it.  A result   *)
(* is wrapped, <<r>>; <<>> stands for "not called yet".                    *)
(***************************************************************************)
VARIABLES
    docs,        \* the texts of the batch (pdf_files of scan_and_extract)
    header_info, \* FinalPDFExtractor.extract_header_info
    line_items,  \* FinalPDFExtractor.extract_line_items
    blocks,      \* the parse_line_item calls of that extract_line_items call
    all_data,    \* FinalPDFExtractor.extract_data_from_pdf
    data_list    \* app.py extract_data_from_text

\* the state of the web app of app.py
VARIABLES
    folder,         \* the files of the folder the requests name
    progress_state, \* progress_state: statuses, rows, running
    last_rows,      \* last_rows
    progress_lock,  \* progress_lock: <<>> when free, else <<t>>, t its holder
    last_rows_lock, \* last_rows_lock, likewise
    event_queue,    \* event_queue, the events put and not yet cleared
    pc,             \* per thread, the statement it is at
    worker,         \* per run, the locals of scan_and_extract
    snapshot,       \* the local snapshot of get_progress
    export_rows,    \* the local rows of export_excel
    sync_result,    \* what extract_folder_sync returned
    emitted,        \* per run, the events its worker has put so far
    queue_runs,     \* per event of event_queue, the run whose worker put it
    latest_run      \* the run /process accepted last, <<>> before the first

extractor_vars == <<docs, header_info, line_items, blocks, all_data, data_list>>

app_vars == <<folder, progress_state, last_rows, progress_lock, last_rows_lock,
              event_queue, pc, worker, snapshot, export_rows, sync_result,
              emitted, queue_runs, latest_run>>

vars == <<docs, header_info, line_items, blocks, all_data, data_list,
          folder, progress_state, last_rows, progress_lock, last_rows_lock,
          event_queue, pc, worker, snapshot, export_rows, sync_result,
          emitted, queue_runs, latest_run>>

(***************************************************************************)
(* Characters and Python string primitives                                 *)
(***************************************************************************)
Digit == {"0", "1", "2", "3", "4", "5", "6", "7", "8", "9"}

Upper == {"A", "B", "C", "D", "E", "F", "G", "H", "I", "J", "K", "L", "M",
          "N", "O", "P", "Q", "R", "S", "T", "U", "V", "W", "X", "Y", "Z"}

Lower == {"a", "b", "c", "d", "e", "f", "g", "h", "i", "j", "k", "l", "m",
          "n", "o", "p", "q", "r", "s", "t", "u", "v", "w", "x", "y", "z"}

\* regex class \s
WhiteSpace == {" ", "\t", "\n", "\r", "\f"}

\* regex class \w
WordChar == Digit \cup Upper \cup Lower \cup {"_"}

\* regex class [A-Z0-9] and its re.IGNORECASE variant
UpperAlnum == Upper \cup Digit
AnyAlnum == Upper \cup Lower \cup Digit
Letter == Upper \cup Lower

\* regex class [\d.]
DigitDot == Digit \cup {"."}

\* s[i-1] of Python: the character at 1-based position i
Ch(s, i) == IF i >= 1 /\ i <= Len(s) THEN SubSeq(s, i, i) ELSE ""

\* s[i-1:] of Python
From(s, i) == SubSeq(s, i, Len(s))

\* s.startswith(p, i-1)
StartsAt(s, p, i) == i >= 1 /\ i + Len(p) - 1 <= Len(s) /\ SubSeq(s, i, i + Len(p) - 1) = p

StartsWith(s, p) == StartsAt(s, p, 1)

\* the first position in lo..hi where p occurs in s, 0 if none (searched by
\* halving the range, which keeps the evaluation shallow on long texts)
RECURSIVE FirstOcc(_, _, _, _)
FirstOcc(s, p, lo, hi) ==
    IF lo > hi THEN 0
    ELSE IF lo = hi THEN (IF StartsAt(s, p, lo) THEN lo ELSE 0)
    ELSE LET mid == (lo + hi) \div 2
             l == FirstOcc(s, p, lo, mid)
         IN  IF l # 0 THEN l ELSE FirstOcc(s, p, mid + 1, hi)

\* s.find(p, i-1) + 1: the first position >= i where p occurs, 0 if none
Find(s, p, i) == FirstOcc(s, p, (IF i < 1 THEN 1 ELSE i), Len(s) - Len(p) + 1)

\* p in s
Contains(s, p) == Find(s, p, 1) # 0

\* every character of s[i-1:j] belongs to the class
AllIn(s, i, j, class) == \A k \in i..j : Ch(s, k) \in class

\* the first position in lo..hi whose character is (inside = TRUE) or is not
\* (inside = FALSE) in the class, 0 if none
RECURSIVE FirstCh(_, _, _, _, _)
FirstCh(s, class, inside, lo, hi) ==
    IF lo > hi THEN 0
    ELSE IF lo = hi THEN (IF (Ch(s, lo) \in class) = inside THEN lo ELSE 0)
    ELSE LET mid == (lo + hi) \div 2
             l == FirstCh(s, class, inside, lo, mid)
         IN  IF l # 0 THEN l ELSE FirstCh(s, class, inside, mid + 1, hi)

\* the last such position in lo..hi, 0 if none
RECURSIVE LastCh(_, _, _, _, _)
LastCh(s, class, inside, lo, hi) ==
    IF lo > hi THEN 0
    ELSE IF lo = hi THEN (IF (Ch(s, lo) \in class) = inside THEN lo ELSE 0)
    ELSE LET mid == (lo + hi) \div 2
             r == LastCh(s, class, inside, mid + 1, hi)
         IN  IF r # 0 THEN r ELSE LastCh(s, class, inside, lo, mid)

\* the position after the longest run of class characters starting at i
RunEnd(s, i, class) ==
    LET k == FirstCh(s, class, FALSE, i, Len(s))
    IN  IF i > Len(s) THEN i ELSE IF k = 0 THEN Len(s) + 1 ELSE k

\* the position where the run of class characters ending before i starts
RunStart(s, i, class) == LastCh(s, class, FALSE, 1, i - 1) + 1

\* s.strip()
Strip(s) ==
    LET a == RunEnd(s, 1, WhiteSpace)
    IN  IF a > Len(s) THEN "" ELSE SubSeq(s, a, RunStart(s, Len(s) + 1, WhiteSpace) - 1)

\* the first position >= i holding a class character, Len(s)+1 if none
NextIn(s, i, class) ==
    LET k == FirstCh(s, class, TRUE, i, Len(s))
    IN  IF i > Len(s) THEN i ELSE IF k = 0 THEN Len(s) + 1 ELSE k

\* s.split(): the whitespace-separated tokens of s
RECURSIVE SplitFrom(_, _)
SplitFrom(s, i) ==
    LET a == RunEnd(s, i, WhiteSpace)
    IN  IF a > Len(s) THEN <<>>
        ELSE LET e == NextIn(s, a, WhiteSpace)
             IN  <<SubSeq(s, a, e - 1)>> \o SplitFrom(s, e)

Split(s) == SplitFrom(s, 1)

\* the line boundaries of str.splitlines among the modelled characters
LineBreaks == {"\n", "\r", "\f"}

\* s.splitlines(): "\r\n" is one boundary
RECURSIVE SplitLinesFrom(_, _)
SplitLinesFrom(s, i) ==
    IF i > Len(s) THEN <<>>
    ELSE LET n == NextIn(s, i, LineBreaks)
         IN  IF n > Len(s) THEN <<SubSeq(s, i, Len(s))>>
             ELSE <<SubSeq(s, i, n - 1)>>
                  \o SplitLinesFrom(s, IF Ch(s, n) = "\r" /\ Ch(s, n + 1) = "\n"
                                       THEN n + 2 ELSE n + 1)

splitlines(s) == SplitLinesFrom(s, 1)

\* int(c) of one decimal digit
DigitVal(c) ==
    CASE c = "0" -> 0 [] c = "1" -> 1 [] c = "2" -> 2 [] c = "3" -> 3
      [] c = "4" -> 4 [] c = "5" -> 5 [] c = "6" -> 6 [] c = "7" -> 7
      [] c = "8" -> 8 [] c = "9" -> 9

\* int(s) of a string of decimal digits
RECURSIVE ToInt(_)
ToInt(s) ==
    IF Len(s) = 0 THEN 0
    ELSE 10 * ToInt(SubSeq(s, 1, Len(s) - 1)) + DigitVal(Ch(s, Len(s)))

\* s.upper() over the ASCII letters
LowerStr == "abcdefghijklmnopqrstuvwxyz"
UpperStr == "ABCDEFGHIJKLMNOPQRSTUVWXYZ"

UpperCh(c) == IF c \in Lower THEN Ch(UpperStr, Find(LowerStr, c, 1)) ELSE c

LowerCh(c) == IF c \in Upper THEN Ch(LowerStr, Find(UpperStr, c, 1)) ELSE c

\* s.lower() over the ASCII letters
RECURSIVE lower(_)
lower(s) ==
    IF Len(s) = 0 THEN ""
    ELSE IF Len(s) = 1 THEN LowerCh(s)
    ELSE lower(SubSeq(s, 1, Len(s) \div 2)) \o lower(SubSeq(s, (Len(s) \div 2) + 1, Len(s)))

RECURSIVE upper(_)
upper(s) ==
    IF Len(s) = 0 THEN ""
    ELSE IF Len(s) = 1 THEN UpperCh(s)
    ELSE upper(SubSeq(s, 1, Len(s) \div 2)) \o upper(SubSeq(s, (Len(s) \div 2) + 1, Len(s)))

\* str(n) of a natural number
DigitStr == "0123456789"

RECURSIVE ToStr(_)
ToStr(n) == IF n < 10 THEN Ch(DigitStr, n + 1) ELSE ToStr(n \div 10) \o Ch(DigitStr, (n % 10) + 1)

\* Python None, and a value that is "not None"
None == <<>>

(***************************************************************************)
(* pdf_extractor_final.py: parse_line_item, the resolution of order        *)
(* number, vendor style and Kama SKU                                       *)
(***************************************************************************)

\* full_context.split('\n')[0]
first_line(full_context) ==
    LET n == Find(full_context, "\n", 1)
    IN  IF n = 0 THEN full_context ELSE SubSeq(full_context, 1, n - 1)

\* re.match(r"^(\d{3})\s*(.+)", first_line): None, or groups 1 and 2
line_match(line) ==
    IF ~(Len(line) >= 4 /\ AllIn(line, 1, 3, Digit)) THEN None
    ELSE LET a == RunEnd(line, 4, WhiteSpace)
         IN  [g1 |-> SubSeq(line, 1, 3),
              g2 |-> IF a > Len(line) THEN Ch(line, Len(line)) ELSE From(line, a)]

\* the first position p >= 2 with s[p] = "/", three digits after it and at
\* least one more character: where (.+?/\d{3})(.+) splits s; 0 if none
RECURSIVE OrderSplitFrom(_, _)
OrderSplitFrom(s, p) ==
    LET k == Find(s, "/", p)
    IN  IF k = 0 \/ k + 4 > Len(s) THEN 0
        ELSE IF AllIn(s, k + 1, k + 3, Digit) THEN k
        ELSE OrderSplitFrom(s, k + 1)

OrderSplit(s) == OrderSplitFrom(s, 2)

\* re.match(r'^S-[\d.]+$', s) or re.match(r'^[\d.]+$', s)
IsSizeIndicator(s) ==
    \/ StartsWith(s, "S-") /\ Len(s) >= 3 /\ AllIn(s, 3, Len(s), DigitDot)
    \/ Len(s) >= 1 /\ AllIn(s, 1, Len(s), DigitDot)

\* re.search(r'[A-Z]', s)
HasUpper(s) == \E k \in 1..Len(s) : Ch(s, k) \in Upper

\* re.match(r'^\d{2}KT$', s)
IsBareKarat(s) == Len(s) = 4 /\ AllIn(s, 1, 2, Digit) /\ SubSeq(s, 3, 4) = "KT"

\* re.match(r"\d{2}KT|PLAT|SILV|STER", s): a prefix of s has metal shape
IsMetalPart(s) ==
    \/ Len(s) >= 4 /\ AllIn(s, 1, 2, Digit) /\ SubSeq(s, 3, 4) = "KT"
    \/ StartsWith(s, "PLAT")
    \/ StartsWith(s, "SILV")
    \/ StartsWith(s, "STER")

\* re.match(r'^\d{2}KT|PLAT|SILV|STER$', s): the $ binds to STER only
LooksLikeMetalInfo(s) ==
    \/ Len(s) >= 4 /\ AllIn(s, 1, 2, Digit) /\ SubSeq(s, 3, 4) = "KT"
    \/ StartsWith(s, "PLAT")
    \/ StartsWith(s, "SILV")
    \/ s = "STER"

\* lines 156-178 without the split of parts[0]
SkuStage1_Unsplit(parts) ==
    [order_number |-> parts[1], vendor_style |-> "", kama_sku |-> ""]

\* lines 156-178: parts[0] holds order number and vendor style stuck together
SkuStage1(parts) ==
    LET order_number == parts[1]
        p == IF Contains(order_number, "/") THEN OrderSplit(order_number) ELSE 0
    IN  IF p # 0
        THEN [order_number |-> SubSeq(order_number, 1, p + 3),
              vendor_style |-> From(order_number, p + 4),
              kama_sku |-> IF Len(parts) > 1 THEN parts[2] ELSE ""]
        ELSE [order_number |-> order_number, vendor_style |-> "", kama_sku |-> ""]

\* lines 180-197: parts[1] holds a slash and no LG prefix
SkuStage2(parts, r) ==
    IF ~(r.vendor_style = "" \/ r.kama_sku = "") THEN r
    ELSE IF Len(parts) > 2 /\ Contains(parts[2], "/") /\ ~StartsWith(parts[2], "LGD")
            /\ ~StartsWith(parts[2], "LG") /\ ~StartsWith(parts[2], "LGR")
    THEN LET p == OrderSplit(parts[2])
         IN  IF p # 0
             THEN [order_number |-> SubSeq(parts[2], 1, p + 3),
                   vendor_style |-> From(parts[2], p + 4),
                   kama_sku |-> parts[3]]
             ELSE [order_number |-> r.order_number,
                   vendor_style |-> IF r.vendor_style = "" THEN parts[2] ELSE r.vendor_style,
                   kama_sku |-> IF r.kama_sku = "" THEN parts[3] ELSE r.kama_sku]
    ELSE r

\* the assignments "if not vendor_style: ...; if not kama_sku: ..."
Fill(r, vs, sku) ==
    [order_number |-> r.order_number,
     vendor_style |-> IF r.vendor_style = "" THEN vs ELSE r.vendor_style,
     kama_sku |-> IF r.kama_sku = "" THEN sku ELSE r.kama_sku]

Part(parts, i) == IF Len(parts) >= i THEN parts[i] ELSE ""

\* lines 199-241: the shape chain of the normal format
SkuStage3(parts, r) ==
    IF ~(r.vendor_style = "" \/ r.kama_sku = "") THEN r
    ELSE LET parts2_is_size_indicator == Len(parts) > 2 /\ IsSizeIndicator(parts[3])
         IN  IF parts2_is_size_indicator /\ Len(parts) > 3
                 THEN Fill(r, Part(parts, 2), parts[4])
             ELSE IF Len(parts) > 2 /\ Len(parts[3]) > Len(parts[2]) /\ HasUpper(parts[3])
                 THEN Fill(r, Part(parts, 2), parts[3])
             ELSE IF Len(parts) > 1 /\ HasUpper(parts[2]) /\ ~IsBareKarat(parts[2])
                 THEN IF Len(parts) <= 2 \/ LooksLikeMetalInfo(parts[3])
                      THEN Fill(r, parts[2], parts[2])
                      ELSE Fill(r, Part(parts, 2), Part(parts, 3))
             ELSE Fill(r, Part(parts, 2), Part(parts, 3))

\* lines 156-241
ResolveSku(parts) == SkuStage3(parts, SkuStage2(parts, SkuStage1(parts)))

\* line 244: the Kama SKU validation
MinSkuLen == 3

\* line 244 without its length test
SkuRejected_EmptyOnly(kama_sku) == kama_sku = ""

SkuRejected(kama_sku) == kama_sku = "" \/ Len(kama_sku) < MinSkuLen

\* line 249: any(m in rest_of_line for m in ["KT", "PLAT", "SILV", "STER"])
MetalMarkers == {"KT", "PLAT", "SILV", "STER"}

HasMetalMarker(rest_of_line) == \E m \in MetalMarkers : Contains(rest_of_line, m)

(***************************************************************************)
(* parse_line_item: metal, size, diamond quality                           *)
(***************************************************************************)

\* the last part of metal shape instead of the first
FirstMetal_Last(parts, i) ==
    IF \E j \in i..Len(parts) : IsMetalPart(parts[j])
    THEN CHOOSE j \in i..Len(parts) :
             IsMetalPart(parts[j]) /\ \A h \in (j + 1)..Len(parts) : ~IsMetalPart(parts[h])
    ELSE 0

\* lines 260-267: the first index >= i of a part of metal shape, 0 if none
RECURSIVE FirstMetal(_, _)
FirstMetal(parts, i) ==
    IF i > Len(parts) THEN 0
    ELSE IF IsMetalPart(parts[i]) THEN i
    ELSE FirstMetal(parts, i + 1)

\* lines 252-267; the indexes are 1-based, 0 where the code has -1
MetalSearch(parts) ==
    LET i == FirstMetal(parts, 1)
    IN  IF i = 0
        THEN [metal_kt |-> "", metal_color |-> "", metal_kt_index |-> 0, metal_color_index |-> 0]
        ELSE [metal_kt |-> parts[i],
              metal_color |-> IF i + 1 <= Len(parts) THEN parts[i + 1] ELSE "",
              metal_kt_index |-> i,
              metal_color_index |-> IF i + 1 <= Len(parts) THEN i + 1 ELSE 0]

\* f"{float(s):.2f}" for s = <digits>.<digits>; the exact decimal ties of a
\* fraction longer than two digits round as the binary double does and are
\* tabulated for the fractions a double represents exactly
FloatArgOk(s) ==
    LET d == Find(s, ".", 1)
    IN  /\ d # 0 /\ Find(s, ".", d + 1) = 0
        /\ Len(s) >= 2
        /\ AllIn(s, 1, d - 1, Digit) /\ AllIn(s, d + 1, Len(s), Digit)

RoundsUp(frac) ==
    LET r == From(frac, 3)
    IN  IF Len(r) = 0 THEN FALSE
        ELSE IF DigitVal(Ch(r, 1)) > 5 THEN TRUE
        ELSE IF DigitVal(Ch(r, 1)) < 5 THEN FALSE
        ELSE IF \E k \in 2..Len(r) : Ch(r, k) # "0" THEN TRUE
        ELSE CASE SubSeq(frac, 1, 2) = "12" -> FALSE
               [] SubSeq(frac, 1, 2) = "37" -> TRUE
               [] SubSeq(frac, 1, 2) = "62" -> FALSE
               [] SubSeq(frac, 1, 2) = "87" -> TRUE

Format2f(s) ==
    LET d == Find(s, ".", 1)
        frac == From(s, d + 1)
        padded == frac \o "00"
        h == 100 * ToInt(SubSeq(s, 1, d - 1)) + ToInt(SubSeq(padded, 1, 2))
               + (IF RoundsUp(frac) THEN 1 ELSE 0)
    IN  ToStr(h \div 100) \o "." \o Ch(DigitStr, ((h % 100) \div 10) + 1)
            \o Ch(DigitStr, (h % 10) + 1)

\* lines 272-292
extract_size_value(value_str) ==
    LET d == Find(value_str, ".", 1)
    IN  IF d # 0
        THEN IF Find(value_str, ".", d + 1) # 0
             THEN LET d2 == Find(value_str, ".", d + 1)
                      normalized == SubSeq(value_str, 1, d2 - 1)
                  IN  IF FloatArgOk(normalized) THEN Format2f(normalized) ELSE normalized
             ELSE IF FloatArgOk(value_str) THEN Format2f(value_str) ELSE value_str
        ELSE value_str

\* re.match(r"^[A-Z]{1,2}$", s)
IsQualityPrefix(s) == Len(s) \in {1, 2} /\ AllIn(s, 1, Len(s), Upper)

\* re.match(r"[A-Z0-9]+\+[A-Z]+|[A-Z]+[-/][A-Z0-9]+", s, re.IGNORECASE)
IsQualityGrade(s) ==
    \/ LET e == RunEnd(s, 1, AnyAlnum)
       IN  e > 1 /\ Ch(s, e) = "+" /\ Ch(s, e + 1) \in Letter
    \/ LET e == RunEnd(s, 1, Letter)
       IN  e > 1 /\ Ch(s, e) \in {"-", "/"} /\ Ch(s, e + 1) \in AnyAlnum

\* re.match(r"^S-([\d.]+)$", s)
IsSDash(s) == StartsWith(s, "S-") /\ Len(s) >= 3 /\ AllIn(s, 3, Len(s), DigitDot)

\* re.match(r"^(\d+(?:\.\d+)*)$", s)
RECURSIVE IsDottedNumberFrom(_, _)
IsDottedNumberFrom(s, i) ==
    LET e == RunEnd(s, i, Digit)
    IN  /\ e > i
        /\ \/ e > Len(s)
           \/ Ch(s, e) = "." /\ IsDottedNumberFrom(s, e + 1)

IsDottedNumber(s) == IsDottedNumberFrom(s, 1)

SizeStopWords == {"W", "Y", "PLAT", "SILV", "STER", "RD", "EX"}

\* lines 297-323: the forward scan from position i
RECURSIVE SizeForward(_, _)
SizeForward(parts, i) ==
    IF i > Len(parts) THEN ""
    ELSE LET part == parts[i]
         IN  IF /\ IsQualityPrefix(part) /\ part \notin SizeStopWords
                /\ i + 1 <= Len(parts) /\ IsQualityGrade(parts[i + 1])
                 THEN ""
             ELSE IF IsQualityGrade(part) THEN ""
             ELSE IF IsSDash(part) THEN extract_size_value(From(part, 3))
             ELSE IF IsDottedNumber(part) THEN extract_size_value(part)
             ELSE SizeForward(parts, i + 1)

\* lines 328-335: the backward scan from position i
RECURSIVE SizeBackward(_, _)
SizeBackward(parts, i) ==
    IF i < 1 THEN ""
    ELSE IF IsSDash(parts[i]) THEN extract_size_value(From(parts[i], 3))
    ELSE SizeBackward(parts, i - 1)

\* lines 294-335
FindSize(parts, m) ==
    LET fwd == IF m.metal_color_index >= 1 THEN SizeForward(parts, m.metal_color_index + 1) ELSE ""
    IN  IF fwd = "" /\ m.metal_kt_index >= 1
        THEN SizeBackward(parts, m.metal_kt_index - 1)
        ELSE fwd

\* re.match(r"[A-Z][+-]?[-/][A-Z0-9]+", s)
IsDashedQuality(s) ==
    /\ Len(s) >= 3 /\ Ch(s, 1) \in Upper
    /\ \/ Ch(s, 2) \in {"-", "/"} /\ Ch(s, 3) \in UpperAlnum
       \/ Ch(s, 2) \in {"+", "-"} /\ Ch(s, 3) \in {"-", "/"} /\ Ch(s, 4) \in UpperAlnum

\* re.match(r"[A-Z0-9]+\+[A-Z]+", s, re.IGNORECASE)
IsPlusQuality(s) ==
    LET e == RunEnd(s, 1, AnyAlnum)
    IN  e > 1 /\ Ch(s, e) = "+" /\ Ch(s, e + 1) \in Letter

DiaStopWords == {"W", "Y", "PLAT", "SILV", "STER"}

\* lines 342-362: the scan from position i
RECURSIVE DiaScan(_, _)
DiaScan(parts, i) ==
    IF i > Len(parts) THEN ""
    ELSE LET part == parts[i]
         IN  IF IsDashedQuality(part) THEN part
             ELSE IF IsPlusQuality(part)
                 THEN IF i > 1 /\ IsQualityPrefix(parts[i - 1]) /\ parts[i - 1] \notin DiaStopWords
                      THEN parts[i - 1] \o " " \o part
                      ELSE part
             ELSE IF /\ i + 1 <= Len(parts) /\ IsQualityPrefix(part) /\ part \notin DiaStopWords
                     /\ IsQualityGrade(parts[i + 1])
                 THEN part \o " " \o parts[i + 1]
             ELSE DiaScan(parts, i + 1)

\* lines 337-362
FindDiaQuality(parts, m) ==
    DiaScan(parts, IF m.metal_color_index >= 1 THEN m.metal_color_index + 1 ELSE 1)

(***************************************************************************)
(* datetime.strptime(s, "%b/%d/%Y").strftime("%d-%m-%Y")                   *)
(***************************************************************************)
MonthAbbr == <<"JAN", "FEB", "MAR", "APR", "MAY", "JUN",
               "JUL", "AUG", "SEP", "OCT", "NOV", "DEC">>

MonthFull == <<"JANUARY", "FEBRUARY", "MARCH", "APRIL", "MAY", "JUNE",
               "JULY", "AUGUST", "SEPTEMBER", "OCTOBER", "NOVEMBER", "DECEMBER">>

IsLeap(y) == (y % 4 = 0 /\ y % 100 # 0) \/ y % 400 = 0

DaysIn(m, y) ==
    IF m = 2 THEN (IF IsLeap(y) THEN 29 ELSE 28)
    ELSE IF m \in {4, 6, 9, 11} THEN 30 ELSE 31

TwoDigits(n) == Ch(DigitStr, (n \div 10) + 1) \o Ch(DigitStr, (n % 10) + 1)

\* the month names are matched case-insensitively and a name must be
\* followed by "/"; months is MonthAbbr (%b) or MonthFull (%B).
\* The result is None where strptime raises ValueError.
strptime_strftime(s, months) ==
    LET sl == Find(s, "/", 1)
        name == upper(SubSeq(s, 1, sl - 1))
        ms == {m \in 1..12 : months[m] = name}
        s2 == Find(s, "/", sl + 1)
        dd == SubSeq(s, sl + 1, s2 - 1)
        yy == From(s, s2 + 1)
    IN  IF sl = 0 \/ ms = {} \/ s2 = 0 THEN None
        ELSE IF ~(Len(dd) \in {1, 2} /\ AllIn(dd, 1, Len(dd), Digit)) THEN None
        ELSE IF ~(Len(yy) = 4 /\ AllIn(yy, 1, 4, Digit)) THEN None
        ELSE LET m == CHOOSE x \in ms : TRUE
                 d == ToInt(dd)
                 y == ToInt(yy)
             IN  IF d < 1 \/ y < 1 \/ d > DaysIn(m, y) THEN None
                 ELSE <<TwoDigits(d) \o "-" \o TwoDigits(m) \o "-" \o ToStr(y)>>

\* re.match(r"\w{3}/\d{2}/\d{4}", s)
IsDatePart(s) ==
    /\ Len(s) >= 11
    /\ AllIn(s, 1, 3, WordChar) /\ Ch(s, 4) = "/"
    /\ AllIn(s, 5, 6, Digit) /\ Ch(s, 7) = "/"
    /\ AllIn(s, 8, 11, Digit)

\* the last part of date shape instead of the first
FirstDate_Last(parts, i) ==
    IF \E j \in i..Len(parts) : IsDatePart(parts[j])
    THEN CHOOSE j \in i..Len(parts) :
             IsDatePart(parts[j]) /\ \A h \in (j + 1)..Len(parts) : ~IsDatePart(parts[h])
    ELSE 0

\* lines 411-412: the first index >= i of a part of date shape, 0 if none
RECURSIVE FirstDate(_, _)
FirstDate(parts, i) ==
    IF i > Len(parts) THEN 0
    ELSE IF IsDatePart(parts[i]) THEN i
    ELSE FirstDate(parts, i + 1)

\* lines 407-421
FindDate(parts) ==
    LET i == FirstDate(parts, 1)
    IN  IF i = 0 THEN [ship_date |-> "", qty |-> ""]
        ELSE LET d == strptime_strftime(parts[i], MonthAbbr)
             IN  [ship_date |-> IF d = None THEN parts[i] ELSE d[1],
                  qty |-> IF i + 1 <= Len(parts) THEN parts[i + 1] ELSE ""]

(***************************************************************************)
(* parse_line_item: the searches over the whole block context              *)
(***************************************************************************)

\* the end of the line that holds position i: the position of its "\n",
\* or Len(s)+1
LineEnd(s, i) == NextIn(s, i, {"\n"})

\* re.search(r"ItemType\s+(\S+)", s): lines 431-434
RECURSIVE ItemTypeFrom(_, _)
ItemTypeFrom(s, i) ==
    LET k == Find(s, "ItemType", i)
    IN  IF k = 0 THEN ""
        ELSE LET a == RunEnd(s, k + 8, WhiteSpace)
             IN  IF a > k + 8 /\ a <= Len(s)
                 THEN SubSeq(s, a, NextIn(s, a, WhiteSpace) - 1)
                 ELSE ItemTypeFrom(s, k + 1)

FindItemType(full_context) == ItemTypeFrom(full_context, 1)

\* re.search(r"Engraving Text:\s*(.*)", s) and .strip(): lines 436-439
FindEngraving(full_context) ==
    LET k == Find(full_context, "Engraving Text:", 1)
    IN  IF k = 0 THEN ""
        ELSE LET a == RunEnd(full_context, k + 15, WhiteSpace)
             IN  Strip(SubSeq(full_context, a, LineEnd(full_context, a) - 1))

\* re.search(r"Desc\.\s*(.*?)\s*GM Min", s) and .strip(): lines 441-444.
\* For each "Desc." in turn: the text up to the first "GM Min" after it,
\* which may not hold a line break once the leading white space is skipped.
RECURSIVE DescFrom(_, _)
DescFrom(s, i) ==
    LET k == Find(s, "Desc.", i)
    IN  IF k = 0 THEN None
        ELSE LET a == RunEnd(s, k + 5, WhiteSpace)
                 g == Find(s, "GM Min", a)
                 e == RunStart(s, g, WhiteSpace)
                 b == IF e < a THEN a ELSE e
             IN  IF g # 0 /\ Find(SubSeq(s, a, b - 1), "\n", 1) = 0
                 THEN <<Strip(SubSeq(s, a, b - 1))>>
                 ELSE DescFrom(s, k + 1)

FindDesc(full_context) ==
    LET d == DescFrom(full_context, 1) IN IF d = None THEN "" ELSE d[1]

\* re.search(label + r"\s+Min Wt\s+([\d.]+)\s+Max Wt\s+([\d.]+)", s) and
\* f"{group 1}-{group 2}": lines 466-474
RECURSIVE TolFrom(_, _, _)
TolFrom(s, label, i) ==
    LET k == Find(s, label, i)
    IN  IF k = 0 THEN ""
        ELSE LET a == RunEnd(s, k + Len(label), WhiteSpace)
                 b == RunEnd(s, a + 6, WhiteSpace)
                 c == RunEnd(s, b, DigitDot)
                 d == RunEnd(s, c, WhiteSpace)
                 e == RunEnd(s, d + 6, WhiteSpace)
                 f == RunEnd(s, e, DigitDot)
             IN  IF /\ a > k + Len(label) /\ StartsAt(s, "Min Wt", a)
                    /\ b > a + 6 /\ c > b /\ d > c /\ StartsAt(s, "Max Wt", d)
                    /\ e > d + 6 /\ f > e
                 THEN SubSeq(s, b, c - 1) \o "-" \o SubSeq(s, e, f - 1)
                 ELSE TolFrom(s, label, k + 1)

FindMetalTol(full_context) == TolFrom(full_context, "GM", 1)

FindDiaTol(full_context) == TolFrom(full_context, "Diam", 1)

(***************************************************************************)
(* parse_line_item: the category                                           *)
(***************************************************************************)

\* lines 364-384 with the test for EARRING before the test for RING
SkuCategory_EarringFirst(kama_sku) ==
    LET sku_upper == upper(kama_sku)
    IN  IF Contains(sku_upper, "EARR") \/ Contains(sku_upper, "EARRING")
                \/ Contains(sku_upper, "-TXE") \/ Contains(sku_upper, "-RVE") THEN "EARRING"
        ELSE IF Contains(sku_upper, "BAND") \/ StartsWith(sku_upper, "LGB-") THEN "BAND"
        ELSE IF Contains(sku_upper, "BRAC") \/ Contains(sku_upper, "BRACELET") THEN "BRACELET"
        ELSE IF Contains(sku_upper, "NECK") \/ Contains(sku_upper, "NECKLACE") THEN "NECKLACE"
        ELSE IF Contains(sku_upper, "PEND") \/ Contains(sku_upper, "PENDANT")
                \/ Contains(sku_upper, "-RVP") THEN "PENDANT"
        ELSE IF Contains(sku_upper, "RING") \/ Contains(sku_upper, "-WR")
                \/ Contains(sku_upper, "-RVR") \/ Contains(sku_upper, "-TXR") THEN "RING"
        ELSE IF Contains(sku_upper, "CHAIN") THEN "CHAIN"
        ELSE IF Contains(sku_upper, "SET") THEN "SET"
        ELSE ""

\* lines 364-384
SkuCategory(kama_sku) ==
    LET sku_upper == upper(kama_sku)
    IN  IF Contains(sku_upper, "BAND") \/ StartsWith(sku_upper, "LGB-") THEN "BAND"
        ELSE IF Contains(sku_upper, "BRAC") \/ Contains(sku_upper, "BRACELET") THEN "BRACELET"
        ELSE IF Contains(sku_upper, "NECK") \/ Contains(sku_upper, "NECKLACE") THEN "NECKLACE"
        ELSE IF Contains(sku_upper, "PEND") \/ Contains(sku_upper, "PENDANT")
                \/ Contains(sku_upper, "-RVP") THEN "PENDANT"
        ELSE IF Contains(sku_upper, "RING") \/ Contains(sku_upper, "-WR")
                \/ Contains(sku_upper, "-RVR") \/ Contains(sku_upper, "-TXR") THEN "RING"
        ELSE IF Contains(sku_upper, "EARR") \/ Contains(sku_upper, "EARRING")
                \/ Contains(sku_upper, "-TXE") \/ Contains(sku_upper, "-RVE") THEN "EARRING"
        ELSE IF Contains(sku_upper, "CHAIN") THEN "CHAIN"
        ELSE IF Contains(sku_upper, "SET") THEN "SET"
        ELSE ""

\* re.search(r"(\d{2})K\s*([A-Z]+)", s): group 2 of the first match, None
\* without a match
RECURSIVE MetalPatternFrom(_, _)
MetalPatternFrom(s, i) ==
    LET k == Find(s, "K", i)
    IN  IF k = 0 THEN None
        ELSE LET a == RunEnd(s, k + 1, WhiteSpace)
                 e == RunEnd(s, a, Upper)
             IN  IF k >= 3 /\ AllIn(s, k - 2, k - 1, Digit) /\ e > a
                 THEN <<SubSeq(s, a, e - 1)>>
                 ELSE MetalPatternFrom(s, k + 1)

\* lines 386-405
SuffixCategory(rest_of_line) ==
    LET mp == MetalPatternFrom(rest_of_line, 1)
    IN  IF mp = None THEN ""
        ELSE LET suffix == mp[1]
             IN  IF Contains(suffix, "P") \/ Contains(suffix, "PEND") THEN "PENDANT"
                 ELSE IF Contains(suffix, "R") \/ Contains(suffix, "RING") THEN "RING"
                 ELSE IF Contains(suffix, "B") \/ Contains(suffix, "BAND") THEN "BAND"
                 ELSE IF Contains(suffix, "N") \/ Contains(suffix, "NECK") THEN "NECKLACE"
                 ELSE IF Contains(suffix, "E") \/ Contains(suffix, "EARR") THEN "EARRING"
                 ELSE IF Contains(suffix, "C") \/ Contains(suffix, "CHAIN") THEN "CHAIN"
                 ELSE ""

\* lines 446-464
DescCategory(desc) ==
    LET desc_upper == upper(desc)
    IN  IF Contains(desc_upper, "EARRING") THEN "EARRING"
        ELSE IF Contains(desc_upper, "WEDDING BAND") \/ Contains(desc_upper, "MACHINE BAND")
                \/ Contains(desc_upper, "BAND") THEN "BAND"
        ELSE IF Contains(desc_upper, "BRACELET") \/ Contains(desc_upper, "BRACLET")
                \/ Contains(desc_upper, "BCG") THEN "BRACELET"
        ELSE IF Contains(desc_upper, "PENDANT") \/ Contains(desc_upper, " PD")
                \/ Contains(desc_upper, "18KP") THEN "PENDANT"
        ELSE IF Contains(desc_upper, "NECKLACE") \/ Contains(desc_upper, "NECKALCE")
                \/ Contains(desc_upper, "NACKLACE") THEN "NECKLACE"
        ELSE IF Contains(desc_upper, "RING") \/ Contains(desc_upper, " R ") THEN "RING"
        ELSE IF Contains(desc_upper, "CHAIN") THEN "CHAIN"
        ELSE IF Contains(desc_upper, "SET") THEN "SET"
        ELSE ""

\* lines 364-405 and 446-464: SKU, then metal suffix, then description
FindCategory(kama_sku, rest_of_line, desc) ==
    LET c1 == SkuCategory(kama_sku)
        c2 == IF c1 = "" THEN SuffixCategory(rest_of_line) ELSE c1
    IN  IF c2 = "" /\ desc # "" THEN DescCategory(desc) ELSE c2

(***************************************************************************)
(* parse_line_item and extract_line_items                                  *)
(***************************************************************************)
MinLineNo == 101
MaxLineNo == 999
MinParts == 3

LineItemKeys == {"Line No", "Order Number", "Vendor Style", "Kama SKU", "Metal KT",
                 "Metal Color", "Size", "Ship Date", "Qty", "Dia Quality", "ItemType",
                 "Engraving", "Desc", "Category", "Metal Tol.", "Dia Tol.", "Req Date"}

\* lines 139-140: the accepted line numbers
LineNumberRejected(line_number) == line_number < MinLineNo \/ line_number > MaxLineNo

\* lines 117-497: None for a rejected block, else the dictionary
parse_line_item(full_context) ==
    LET lm == line_match(first_line(full_context))
    IN  IF lm = None THEN None
        ELSE LET line_number == ToInt(lm.g1)
                 rest_of_line == lm.g2
                 parts == Split(rest_of_line)
             IN  IF LineNumberRejected(line_number) THEN None
                 ELSE IF Len(parts) < MinParts THEN None
                 ELSE LET r == ResolveSku(parts)
                      IN  IF SkuRejected(r.kama_sku) THEN None
                          ELSE IF ~HasMetalMarker(rest_of_line) THEN None
                          ELSE LET m == MetalSearch(parts)
                                   dq == FindDate(parts)
                                   desc == FindDesc(full_context)
                               IN  ("Line No" :> ToStr(line_number))
                                   @@ ("Order Number" :> r.order_number)
                                   @@ ("Vendor Style" :> r.vendor_style)
                                   @@ ("Kama SKU" :> r.kama_sku)
                                   @@ ("Metal KT" :> m.metal_kt)
                                   @@ ("Metal Color" :> m.metal_color)
                                   @@ ("Size" :> FindSize(parts, m))
                                   @@ ("Ship Date" :> dq.ship_date)
                                   @@ ("Qty" :> dq.qty)
                                   @@ ("Dia Quality" :> FindDiaQuality(parts, m))
                                   @@ ("ItemType" :> FindItemType(full_context))
                                   @@ ("Engraving" :> FindEngraving(full_context))
                                   @@ ("Desc" :> desc)
                                   @@ ("Category" :> FindCategory(r.kama_sku, rest_of_line, desc))
                                   @@ ("Metal Tol." :> FindMetalTol(full_context))
                                   @@ ("Dia Tol." :> FindDiaTol(full_context))
                                   @@ ("Req Date" :> dq.ship_date)

\* re.match(r"^\d{3}\s+", line): lines 514 and 518
IsItemLine(line) ==
    Len(line) >= 4 /\ AllIn(line, 1, 3, Digit) /\ Ch(line, 4) \in WhiteSpace

\* line 517: range(i + 1, min(i + 10, len(lines))) looks at the 9 lines after
\* line i
LookAhead == 10

\* lines 516-520: the context of the item line at (1-based) position i
RECURSIVE ContextLines(_, _, _)
ContextLines(lines, i, j) ==
    IF j > Len(lines) \/ j >= i + LookAhead THEN <<>>
    ELSE IF IsItemLine(lines[j]) THEN <<>>
    ELSE <<lines[j]>> \o ContextLines(lines, i, j + 1)

RECURSIVE JoinLines(_)
JoinLines(ls) ==
    IF Len(ls) = 0 THEN ""
    ELSE IF Len(ls) = 1 THEN ls[1]
    ELSE ls[1] \o "\n" \o JoinLines(Tail(ls))

\* lines 515-520: the lines that make up full_context
context_lines_of(lines, i) == <<lines[i]>> \o ContextLines(lines, i, i + 1)

full_context_of(lines, i) == JoinLines(context_lines_of(lines, i))

\* a list kept on the extractor between the calls in the place of the local
\* list of line 509: the records that the last call on the first document
\* of the batch returned
KeptLineItems == IF line_items[1] = <<>> THEN <<>> ELSE line_items[1][1]

\* line 509: line_items = []
NewLineItems == <<>>

\* line_items.insert(0, line_data) in the place of line 524
AppendItem_Front(items, line_data) == <<line_data>> \o items

\* line 524: line_items.append(line_data)
AppendItem(items, line_data) == Append(items, line_data)

\* lines 522-525: the loop state after parse_line_item returned line_data
\* for the block that line i opened: line_items, and blocks, the record of
\* every call of parse_line_item: the index of the line that opened the
\* block, the lines joined into full_context, the full_context handed over
\* and the line_data returned
AfterParse(st, i, raw_lines, line_data) ==
    [line_items |-> IF line_data # None THEN AppendItem(st.line_items, line_data)
                    ELSE st.line_items,
     blocks |-> Append(st.blocks, [line |-> i, raw_lines |-> raw_lines,
                                   full_context |-> JoinLines(raw_lines),
                                   line_data |-> line_data])]

\* lines 514-525: one iteration of the loop
ExtractStep(lines, i, st) ==
    IF IsItemLine(lines[i])
    THEN AfterParse(st, i, context_lines_of(lines, i),
                    parse_line_item(full_context_of(lines, i)))
    ELSE st

\* lines 512-525: the loop state after the iterations i..j (the range is
\* halved to keep the evaluation shallow)
RECURSIVE ExtractLoop(_, _, _, _)
ExtractLoop(lines, i, j, st) ==
    IF i > j THEN st
    ELSE IF i = j THEN ExtractStep(lines, i, st)
    ELSE ExtractLoop(lines, ((i + j) \div 2) + 1, j,
                     ExtractLoop(lines, i, (i + j) \div 2, st))

\* lines 509-527: the loop over the lines of the text
ExtractLines(lines) ==
    ExtractLoop(lines, 1, Len(lines), [line_items |-> NewLineItems, blocks |-> <<>>])

\* lines 509-527: line 512 splits the text
ExtractRun(text) == ExtractLines(splitlines(text))

\* lines 499-527
extract_line_items(text) == ExtractRun(text).line_items

(***************************************************************************)
(* extract_header_info and extract_data_from_pdf                           *)
(***************************************************************************)
HeaderKeys == {"Vendor", "PO Number", "PO Date", "Vendor PO", "Customer Name"}

\* the search of AfterColon that keeps the last occurrence of the label that
\* is followed by a colon, as a loop over re.finditer would
RECURSIVE AfterColon_Last(_, _, _)
AfterColon_Last(s, label, i) ==
    LET k == Find(s, label, i)
    IN  IF k = 0 THEN [at |-> 0, val |-> 0]
        ELSE LET later == AfterColon_Last(s, label, k + 1)
                 a == RunEnd(s, k + Len(label), WhiteSpace)
             IN  IF later.at # 0 THEN later
                 ELSE IF Ch(s, a) = ":" THEN [at |-> k, val |-> RunEnd(s, a + 1, WhiteSpace)]
                 ELSE [at |-> 0, val |-> 0]

\* re.search(label + r"\s*:\s*" + <class>+ ...): the position where the
\* value starts after "label : ", for the first occurrence of the label at
\* or after i that is followed by a colon; 0 if none
RECURSIVE AfterColon(_, _, _)
AfterColon(s, label, i) ==
    LET k == Find(s, label, i)
    IN  IF k = 0 THEN [at |-> 0, val |-> 0]
        ELSE LET a == RunEnd(s, k + Len(label), WhiteSpace)
             IN  IF Ch(s, a) = ":"
                 THEN [at |-> k, val |-> RunEnd(s, a + 1, WhiteSpace)]
                 ELSE AfterColon(s, label, k + 1)

\* re.search(r"Purchase From\s*:\s*([^\s]+)", text): lines 86-88
RECURSIVE VendorFrom(_, _)
VendorFrom(text, i) ==
    LET m == AfterColon(text, "Purchase From", i)
    IN  IF m.at = 0 THEN ""
        ELSE IF m.val <= Len(text)
             THEN SubSeq(text, m.val, NextIn(text, m.val, WhiteSpace) - 1)
             ELSE VendorFrom(text, m.at + 1)

\* re.search(r"PO #\s*:\s*(\d+)", text): lines 91-93
RECURSIVE PONumberFrom(_, _)
PONumberFrom(text, i) ==
    LET m == AfterColon(text, "PO #", i)
    IN  IF m.at = 0 THEN ""
        ELSE IF RunEnd(text, m.val, Digit) > m.val
             THEN SubSeq(text, m.val, RunEnd(text, m.val, Digit) - 1)
             ELSE PONumberFrom(text, m.at + 1)

\* re.search(label + r"\s+([^\n]+)", text) and .strip(): lines 98-100 and
\* 111-113
RECURSIVE RestOfLineFrom(_, _, _)
RestOfLineFrom(text, label, i) ==
    LET k == Find(text, label, i)
    IN  IF k = 0 THEN ""
        ELSE LET a == RunEnd(text, k + Len(label), WhiteSpace)
             IN  IF a = k + Len(label) THEN RestOfLineFrom(text, label, k + 1)
                 ELSE IF a > Len(text) THEN ""
                 ELSE Strip(SubSeq(text, a, LineEnd(text, a) - 1))

\* re.search(r"Date\s*:\s*(\w+/\d+/\d+)", text): group 1, None without a match
RECURSIVE DateTokenFrom(_, _)
DateTokenFrom(text, i) ==
    LET m == AfterColon(text, "Date", i)
    IN  IF m.at = 0 THEN None
        ELSE LET b == m.val
                 c == RunEnd(text, b, WordChar)
                 d == RunEnd(text, c + 1, Digit)
                 e == RunEnd(text, d + 1, Digit)
             IN  IF c > b /\ Ch(text, c) = "/" /\ d > c + 1 /\ Ch(text, d) = "/" /\ e > d + 1
                 THEN <<SubSeq(text, b, e - 1)>>
                 ELSE DateTokenFrom(text, m.at + 1)

\* lines 103-108
HeaderPODate(text) ==
    LET tok == DateTokenFrom(text, 1)
    IN  IF tok = None THEN ""
        ELSE LET d == strptime_strftime(tok[1], MonthAbbr)
             IN  IF d = None THEN tok[1] ELSE d[1]

\* lines 67-115
extract_header_info(text) ==
    ("Vendor" :> VendorFrom(text, 1))
    @@ ("PO Number" :> PONumberFrom(text, 1))
    @@ ("PO Date" :> HeaderPODate(text))
    @@ ("Vendor PO" :> RestOfLineFrom(text, "Vendor PO #", 1))
    @@ ("Customer Name" :> RestOfLineFrom(text, "Cust Name", 1))

\* the merge of line 578 without the header fields
Merge_LineOnly(header, line_item) == line_item

\* line 578, {**header_info, **line_item}: the keys of line_item win
Merge(header, line_item) == line_item @@ header

\* lines 553-555: the page texts joined, each followed by "\n"
RECURSIVE PdfText(_)
PdfText(pages) == IF Len(pages) = 0 THEN "" ELSE pages[1] \o "\n" \o PdfText(Tail(pages))

\* lines 576-579: combined_data
CombineData(header, items) == [i \in 1..Len(items) |-> Merge(header, items[i])]

(***************************************************************************)
(* app.py: process_text, the legacy field extraction of one block          *)
(***************************************************************************)

\* lines 497-504
correct_double_decimal_number(val) ==
    LET d1 == Find(val, ".", 1)
        d2 == Find(val, ".", d1 + 1)
        p0 == SubSeq(val, 1, d1 - 1)
        p1 == SubSeq(val, d1 + 1, d2 - 1)
        p2 == From(val, d2 + 1)
    IN  IF /\ d1 # 0 /\ d2 # 0 /\ Find(val, ".", d2 + 1) = 0
           /\ Len(p0) >= 1 /\ Len(p1) >= 1 /\ Len(p2) >= 1
           /\ AllIn(p0, 1, Len(p0), Digit) /\ AllIn(p1, 1, Len(p1), Digit)
           /\ AllIn(p2, 1, Len(p2), Digit)
        THEN Ch(p0, Len(p0)) \o "." \o SubSeq(p2 \o "00", 1, 2)
        ELSE val

\* lines 508-529
patterns == <<
    "A11", "A07", "A08", "A32", "AJR", "B89", "B09", "B74", "B19", "B04",
    "B99", "B29", "BNG", "B14", "B17", "LGD", "L0GD", "L4GD", "LGR", "LGT",
    "LTB", "LGB", "LGY", "LGO", "LGX", "LG0", "LG-", "LGA", "L6GA", "LGW",
    "LGD-", "LRV", "L)GD", "LAJ", "LTX", "LGK", "LCR", "LGS", "LGZ", "LGJ",
    "LGU", "LEN", "LG4", "LGC", "LGA", "LGV", "LDT", "LTR", "LGT", "LG3",
    "LJR", "LR0", "LVR", "LER", "LCW", "LR5", "LGR", "LJE", "LRS",
    "LGEN004W", "LGE", "E11", "E36", "E50", "EAG", "E31", "E19", "E20",
    "E74", "E89", "E01", "E44", "F11", "F30", "F34", "M54", "B92", "G35",
    "G08", "G17", "G11", "G07", "D08", "D11", "D96", "N25", "R09", "R03",
    "R10", "R12", "R42", "R53", "R11", "R19", "R51", "R60", "R80", "R04",
    "R76", "R17", "R77", "R00", "RVN", "R84", "R41", "R98", "R75", "R05",
    "R92", "R01", "VLR", "VLW", "P95", "P77", "P16", "P09", "P24", "P13",
    "P11", "P19", "P12", "T12", "T32", "T29", "T14", "T17", "T11", "T08",
    "TC8", "TC7", "TC6", "T13", "TC9", "W35", "W10", "W11", "W85", "W18",
    "W51", "W94", "W05", "W09", "W01", "W02", "W74", "W41", "WR4", "W06",
    "XRC", "N11", "T18", "N02", "UDP", "UR2", "Z1-", "ZR0", "Z1TX", "Z1L" >>

SkuChar == WordChar \cup {"-"}

\* re.findall(rf"{pattern}[\w-]+(?:\.\d)?", text) from position i on
RECURSIVE FindAllFrom(_, _, _)
FindAllFrom(text, pattern, i) ==
    LET k == Find(text, pattern, i)
    IN  IF k = 0 THEN <<>>
        ELSE LET e == RunEnd(text, k + Len(pattern), SkuChar)
                 f == IF Ch(text, e) = "." /\ Ch(text, e + 1) \in Digit THEN e + 2 ELSE e
             IN  IF e > k + Len(pattern)
                 THEN <<SubSeq(text, k, f - 1)>> \o FindAllFrom(text, pattern, f)
                 ELSE FindAllFrom(text, pattern, k + 1)

\* lines 531-538: the matches of patterns[lo..hi], in pattern order
RECURSIVE FoundPatterns(_, _, _)
FoundPatterns(text, lo, hi) ==
    IF lo > hi THEN <<>>
    ELSE IF lo = hi THEN FindAllFrom(text, patterns[lo], 1)
    ELSE FoundPatterns(text, lo, (lo + hi) \div 2)
            \o FoundPatterns(text, ((lo + hi) \div 2) + 1, hi)

\* pat.replace(")", "")
RECURSIVE DropParens(_)
DropParens(t) ==
    LET k == Find(t, ")", 1)
    IN  IF k = 0 THEN t ELSE SubSeq(t, 1, k - 1) \o DropParens(From(t, k + 1))

\* lines 546-549
process_string(input_string) ==
    LET half == Len(input_string) \div 2
    IN  IF Len(input_string) > 20
        THEN IF ~StartsAt(input_string, "L", half + 1)
             THEN SubSeq(input_string, 1, half)
             ELSE From(input_string, half + 1)
        ELSE input_string

\* the first element of at least n characters, None if there is none
FirstLong(found, n) ==
    LET S == {i \in 1..Len(found) : Len(found[i]) >= n}
    IN  IF S = {} THEN None ELSE <<found[CHOOSE i \in S : \A j \in S : i <= j]>>

\* max(found, key=len): the first of the longest elements
Longest(found) ==
    found[CHOOSE i \in 1..Len(found) :
            /\ \A j \in 1..Len(found) : Len(found[j]) <= Len(found[i])
            /\ \A j \in 1..(i - 1) : Len(found[j]) < Len(found[i])]

MinSkuMatch == 10

\* lines 531-593
LegacyKamaSku(text) ==
    LET raw == FoundPatterns(text, 1, Len(patterns))
        lgd_matches == SelectSeq(raw, LAMBDA m : Contains(m, "LGD"))
        found_patterns == [i \in 1..Len(raw) |-> DropParens(raw[i])]
        first == IF Len(lgd_matches) > 1 THEN <<lgd_matches[1]>>
                 ELSE FirstLong(found_patterns, MinSkuMatch)
        selected_value == IF first = None /\ Len(found_patterns) > 0
                          THEN <<Longest(found_patterns)>>
                          ELSE first
    IN  IF selected_value = None THEN "Not Found"
        ELSE process_string(selected_value[1])

\* a \b of the regex at position i: exactly one of s[i-1], s[i] is a word
\* character
WordBoundary(s, i) == (Ch(s, i - 1) \in WordChar) # (Ch(s, i) \in WordChar)

\* re.search(r"\b(\d{2}KT|PLAT|SILV|STER)\b", text): the first position >= i
\* of a match and the position after it, or 0
RECURSIVE LegacyMetalFrom(_, _)
LegacyMetalFrom(text, i) ==
    LET c == FirstCh(text, Digit \cup {"P", "S"}, TRUE, i, Len(text))
    IN  IF i > Len(text) \/ c = 0 THEN [at |-> 0, end |-> 0]
        ELSE IF /\ WordBoundary(text, c) /\ WordBoundary(text, c + 4)
                /\ \/ AllIn(text, c, c + 1, Digit) /\ StartsAt(text, "KT", c + 2)
                   \/ StartsAt(text, "PLAT", c)
                   \/ StartsAt(text, "SILV", c)
                   \/ StartsAt(text, "STER", c)
             THEN [at |-> c, end |-> c + 4]
             ELSE LegacyMetalFrom(text, c + 1)

\* re.match(r"^\d+(?:\.\d+)?", s): the position after the match, 0 without
NumberPrefixEnd(s) ==
    LET e == RunEnd(s, 1, Digit)
        f == RunEnd(s, e + 1, Digit)
    IN  IF e = 1 THEN 0
        ELSE IF Ch(s, e) = "." /\ f > e + 1 THEN f ELSE e

\* f"{float(s):.2f}" of a digit string with an optional fraction
FormatNumber2f(s) == IF Contains(s, ".") THEN Format2f(s) ELSE Format2f(s \o ".")

\* lines 595-628
LegacyMetal(text) ==
    LET m == LegacyMetalFrom(text, 1)
    IN  IF m.at = 0
        THEN [metal_kt |-> "", metal_color |-> "NA", size |-> ""]
        ELSE LET next_parts == Split(From(text, m.end))
                 size_raw == correct_double_decimal_number(Part(next_parts, 2))
                 e == NumberPrefixEnd(size_raw)
             IN  [metal_kt |-> SubSeq(text, m.at, m.end - 1),
                  metal_color |-> Part(next_parts, 1),
                  size |-> IF e # 0 THEN FormatNumber2f(SubSeq(size_raw, 1, e - 1)) ELSE ""]

\* re.search(r"([A-Za-z]{3,9}/\d{2}/\d{4})\s*(\d+\.?\d*)", text): the first
\* match from position i on, None without a match
MinMonthLen == 3
MaxMonthLen == 9

RECURSIVE LegacyDateFrom(_, _)
LegacyDateFrom(text, i) ==
    LET sl == Find(text, "/", i)
    IN  IF sl = 0 THEN None
        ELSE LET a == RunStart(text, sl, Letter)
                 b == IF sl - a > MaxMonthLen THEN sl - MaxMonthLen ELSE a
                 q == RunEnd(text, sl + 8, WhiteSpace)
                 e == RunEnd(text, q, Digit)
                 f == IF Ch(text, e) = "." THEN RunEnd(text, e + 1, Digit) ELSE e
             IN  IF /\ sl - a >= MinMonthLen
                    /\ AllIn(text, sl + 1, sl + 2, Digit) /\ Ch(text, sl + 3) = "/"
                    /\ AllIn(text, sl + 4, sl + 7, Digit) /\ sl + 7 <= Len(text)
                    /\ e > q
                 THEN [raw_date |-> SubSeq(text, b, sl + 7), qty |-> SubSeq(text, q, f - 1)]
                 ELSE LegacyDateFrom(text, sl + 1)

\* lines 639-656: the keys set, or raised = TRUE for the ValueError of
\* line 653
LegacyDate(text) ==
    LET m == LegacyDateFrom(text, 1)
    IN  IF m = None THEN [raised |-> FALSE, found |-> FALSE, ship_date |-> "", qty |-> ""]
        ELSE LET d1 == strptime_strftime(m.raw_date, MonthAbbr)
                 d2 == IF d1 = None THEN strptime_strftime(m.raw_date, MonthFull) ELSE d1
             IN  IF d2 = None
                 THEN [raised |-> TRUE, found |-> TRUE, ship_date |-> "", qty |-> ""]
                 ELSE [raised |-> FALSE, found |-> TRUE, ship_date |-> d2[1], qty |-> m.qty]

\* regex classes [A-Z0-9+/-], [A-Z0-9/] and [A-Z0-9+/]
QualityChar == UpperAlnum \cup {"+", "/", "-"}
QualityTail == UpperAlnum \cup {"/"}
FallbackChar == UpperAlnum \cup {"+", "/"}

\* the positions k >= i where the string t occurs in s, as re.finditer
\* reports them (non-overlapping), at most two of them
Occurrences2(s, t, i) ==
    LET k1 == Find(s, t, i)
        k2 == IF k1 = 0 THEN 0 ELSE Find(s, t, k1 + Len(t))
    IN  IF k1 = 0 THEN <<>> ELSE IF k2 = 0 THEN <<k1>> ELSE <<k1, k2>>

\* re.search(rf"{color}\s+(\S+)\s+([A-Z0-9+/-]+(?:\s[A-Z0-9/]+)?)", text):
\* groups 1 and 2 of the first match from position i on, None without
RECURSIVE LegacyDiaMatchFrom(_, _, _)
LegacyDiaMatchFrom(text, color, i) ==
    LET k == IF Len(color) = 0
             THEN (IF i > Len(text) THEN 0 ELSE FirstCh(text, WhiteSpace, TRUE, i, Len(text)))
             ELSE Find(text, color, i)
    IN  IF k = 0 THEN None
        ELSE LET a == RunEnd(text, k + Len(color), WhiteSpace)
                 b == NextIn(text, a, WhiteSpace)
                 c == RunEnd(text, b, WhiteSpace)
                 d == RunEnd(text, c, QualityChar)
                 t == RunEnd(text, d + 1, QualityTail)
                 e == IF Ch(text, d) \in WhiteSpace /\ t > d + 1 THEN t ELSE d
             IN  IF a > k + Len(color) /\ b > a /\ c > b /\ d > c
                 THEN [g1 |-> SubSeq(text, a, b - 1), g2 |-> SubSeq(text, c, e - 1)]
                 ELSE LegacyDiaMatchFrom(text, color, k + 1)

\* re.search(r"([A-Z0-9+/]*[-/][A-Z0-9+/]*)", s): group 1, None without
FallbackQuality(s) ==
    LET sp == FirstCh(s, {"-", "/"}, TRUE, 1, Len(s))
        i == RunStart(s, sp, FallbackChar)
        j == RunEnd(s, i, FallbackChar)
        sep == IF Ch(s, j) = "-" THEN j ELSE LastCh(s, {"/"}, TRUE, i, j - 1)
    IN  IF sp = 0 THEN None
        ELSE <<SubSeq(s, i, RunEnd(s, sep + 1, FallbackChar) - 1)>>

MaxQualityLen == 10
MinQualityLen == 3

\* lines 681-722: the fallback for a too long or too short diamond quality
LegacyDiaFallback(text, color, size, dq) ==
    LET pos == Occurrences2(text, dq, 1)
        adj1 == From(text, pos[1] + Len(color))
        sz == Find(adj1, size, 1)
        adj2 == From(adj1, sz + Len(size))
        rd == Find(adj2, "RD", 1)
        adj3 == IF rd # 0 THEN SubSeq(adj2, 1, rd - 1) ELSE adj2
        fb == IF Len(pos) >= 2 THEN FallbackQuality(From(text, pos[2] + Len(color)))
              ELSE IF Len(pos) = 1 /\ sz # 0 THEN FallbackQuality(adj3)
              ELSE None
    IN  IF fb # None /\ ~Contains(dq, fb[1]) THEN fb[1] ELSE dq

\* lines 660-726
LegacyDiaQuality(text, color, size) ==
    LET m == LegacyDiaMatchFrom(text, color, 1)
    IN  IF m = None THEN ""
        ELSE LET dq == IF NumberPrefixEnd(m.g1) # 0 THEN m.g2 ELSE m.g1
             IN  IF Len(dq) > MaxQualityLen \/ Len(dq) < MinQualityLen
                 THEN LegacyDiaFallback(text, color, size, dq)
                 ELSE dq

\* re.search(r"(?:ItemType|Item\s+Type)\s+(\S+)", text, re.IGNORECASE) on
\* the upper-cased text u, from position i on: lines 738-742
RECURSIVE LegacyItemTypeFrom(_, _, _)
LegacyItemTypeFrom(text, u, i) ==
    LET k == Find(u, "ITEM", i)
    IN  IF k = 0 THEN ""
        ELSE LET w == RunEnd(u, k + 4, WhiteSpace)
                 t == IF StartsAt(u, "TYPE", k + 4) THEN k + 8
                      ELSE IF w > k + 4 /\ StartsAt(u, "TYPE", w) THEN w + 4
                      ELSE 0
                 a == RunEnd(u, t, WhiteSpace)
             IN  IF t # 0 /\ a > t /\ a <= Len(u)
                 THEN SubSeq(text, a, NextIn(text, a, WhiteSpace) - 1)
                 ELSE LegacyItemTypeFrom(text, u, k + 1)

LegacyItemType(text) == LegacyItemTypeFrom(text, upper(text), 1)

\* lines 757-769: the last word of the description cut at "Class";
\* re.search(r"\b(\w+)$", cleaned_desc), None without a match
LegacyCategory(desc) ==
    LET c == Find(desc, "Class", 1)
        cleaned_desc == IF c # 0 THEN Strip(SubSeq(desc, 1, c - 1)) ELSE desc
        a == RunStart(cleaned_desc, Len(cleaned_desc) + 1, WordChar)
    IN  IF a <= Len(cleaned_desc) THEN <<From(cleaned_desc, a)>> ELSE None

\* the dictionary of process_text: str maps the keys that hold a string to
\* it, none is the set of the keys that hold None
PyDict(str, none) == [str |-> str, none |-> none]

EmptyStrs == [k \in {} |-> ""]

PyKeys(d) == DOMAIN d.str \cup d.none

\* d[k] = v
SetStr(d, k, v) == [str |-> (k :> v) @@ d.str, none |-> d.none \ {k}]

\* d[k] = v[1] when v is a match, d unchanged when v is None
SetIf(d, k, v) == IF v = None THEN d ELSE SetStr(d, k, v[1])

\* d[k] = v where v is None or <<string>>
SetOpt(d, k, v) ==
    IF v = None
    THEN [str |-> [x \in DOMAIN d.str \ {k} |-> d.str[x]], none |-> d.none \cup {k}]
    ELSE SetStr(d, k, v[1])

\* the tolerance of lines 773-785: None where FinalPDFExtractor has ""
NoneIfEmpty(t) == IF t = "" THEN None ELSE <<t>>

LegacyTol(text, label) == NoneIfEmpty(TolFrom(text, label, 1))

\* lines 591-628: Kama SKU, Metal KT, Metal Color and Size
SetSkuAndMetal(data, kama_sku, m) ==
    SetStr(SetStr(SetStr(SetStr(data, "Kama SKU", kama_sku), "Metal KT", m.metal_kt),
                  "Metal Color", m.metal_color),
           "Size", m.size)

\* lines 655-656
SetDate(data, dt) ==
    IF dt.found THEN SetStr(SetStr(data, "Ship Date", dt.ship_date), "Qty", dt.qty)
    ELSE data

\* lines 752-771: the keys Desc and Category, each set only when found
SetDesc(data, desc) ==
    IF desc = None THEN data
    ELSE SetIf(SetStr(data, "Desc", desc[1]), "Category", LegacyCategory(desc[1]))

\* lines 660-790, reached when the date did not raise
AfterDate(text, data, line_no) ==
    SetOpt(SetOpt(SetStr(SetDesc(SetStr(SetStr(SetStr(data, "Dia Quality",
                                                      LegacyDiaQuality(text,
                                                          data.str["Metal Color"],
                                                          data.str["Size"])),
                                               "ItemType", LegacyItemType(text)),
                                        "Engraving", FindEngraving(text)),
                                 DescFrom(text, 1)),
                         "Line No", line_no),
                  "Metal Tol.", LegacyTol(text, "GM")),
           "Dia Tol.", LegacyTol(text, "Diam"))

\* lines 630-656: the date raises, or the extraction goes on
DateStep(text, data, line_no, dt) ==
    IF dt.raised THEN [raised |-> TRUE, data |-> data]
    ELSE [raised |-> FALSE, data |-> AfterDate(text, SetDate(data, dt), line_no)]

\* lines 506-792: [raised, data]
process_text(text, data, line_no) ==
    DateStep(text, SetSkuAndMetal(data, LegacyKamaSku(text), LegacyMetal(text)), line_no,
             LegacyDate(text))

(***************************************************************************)
(* app.py: extract_data_from_text, the legacy header and block loop        *)
(***************************************************************************)

\* the group of r"(.*?)\s+" + term where the group starts at a, the end of
\* the white space that follows position p, and lead is the number of white
\* space characters the pattern demands before the group: the text up to
\* the white space before the first term that has some, on one line, None
\* without a match; i is the position the search for term has reached
RECURSIVE LazyTo(_, _, _, _, _, _)
LazyTo(s, p, a, lead, term, i) ==
    LET g == Find(s, term, i)
        e == IF g = a THEN a ELSE RunStart(s, g, WhiteSpace)
    IN  IF g = 0 THEN None
        ELSE IF Ch(s, g - 1) \in WhiteSpace /\ (g > a \/ a - p >= lead + 1)
        THEN (IF Find(SubSeq(s, a, e - 1), "\n", 1) = 0 THEN <<SubSeq(s, a, e - 1)>>
              ELSE None)
        ELSE LazyTo(s, p, a, lead, term, g + 1)

\* re.search(r"Purchase From\s*:\s*(.*?)\s+Vendor", text): line 800
RECURSIVE LegacyVendorFrom(_, _)
LegacyVendorFrom(text, i) ==
    LET k == Find(text, "Purchase From", i)
        c == RunEnd(text, k + 13, WhiteSpace)
        a == RunEnd(text, c + 1, WhiteSpace)
        v == LazyTo(text, c + 1, a, 0, "Vendor", a)
    IN  IF k = 0 THEN None
        ELSE IF Ch(text, c) = ":" /\ v # None THEN v
        ELSE LegacyVendorFrom(text, k + 1)

\* re.search(r"Vendor PO #\s*([^\s]+)", text): line 818
LegacyVendorPO(text) ==
    LET k == Find(text, "Vendor PO #", 1)
        a == RunEnd(text, k + 11, WhiteSpace)
    IN  IF k = 0 \/ a > Len(text) THEN None
        ELSE <<SubSeq(text, a, NextIn(text, a, WhiteSpace) - 1)>>

\* re.search(r"Cust Name\s+(.*?)\s+Gold Price", text) and .strip(): line 823
RECURSIVE LegacyCustNameFrom(_, _)
LegacyCustNameFrom(text, i) ==
    LET k == Find(text, "Cust Name", i)
        a == RunEnd(text, k + 9, WhiteSpace)
        v == LazyTo(text, k + 9, a, 1, "Gold Price", a)
    IN  IF k = 0 THEN None
        ELSE IF a > k + 9 /\ v # None THEN <<Strip(v[1])>>
        ELSE LegacyCustNameFrom(text, k + 1)

MinBlockNo == 101
MaxBlockNo == 400

\* lines 889-896: re.match(r"^(\d{3})", line) with 101 <= num <= 400
InBlockRange(num) == IF num >= MinBlockNo /\ num <= MaxBlockNo THEN <<num>> ELSE None

is_block_start(line) ==
    IF Len(line) >= 3 /\ AllIn(line, 1, 3, Digit) THEN InBlockRange(ToInt(SubSeq(line, 1, 3)))
    ELSE None

\* the lines j.. that lines 908-909 append to the buffer of a block
RECURSIVE BufferLines(_, _)
BufferLines(lines, j) ==
    IF j > Len(lines) \/ is_block_start(lines[j]) # None THEN <<>>
    ELSE <<lines[j]>> \o BufferLines(lines, j + 1)

\* lines 905 and 909: the lines that make up line_buffer
buffer_lines_of(lines, i) == <<lines[i]>> \o BufferLines(lines, i + 1)

\* the value of line_buffer when the block that starts at line i is flushed
line_buffer_of(lines, i) == JoinLines(buffer_lines_of(lines, i))

RECURSIVE BlockLoop(_, _, _, _, _)

\* lines 903 and 913: the loop after process_text returned or raised r
Flushed(lines, i, data, rows, flushed, r) ==
    IF r.raised THEN [raised |-> "ValueError", rows |-> <<>>, buffers |-> flushed]
    ELSE BlockLoop(lines, i + 1, data, Append(rows, r.data), flushed)

\* lines 902-905 and 912-913: the flush of the block that line i opened
Flush(lines, i, data, rows, buffers, line_buffer) ==
    Flushed(lines, i, data, rows,
            Append(buffers, [line |-> i, raw_lines |-> buffer_lines_of(lines, i),
                             line_buffer |-> line_buffer]),
            process_text(line_buffer, data, ToStr(is_block_start(lines[i])[1])))

\* lines 898-913: the flushes of the blocks that start at lines i..: the
\* rows appended to data_list (rows) and, in buffers, the line_buffer of every
\* flush with the index of the line that opened it; raised once a
\* process_text call raises
BlockLoop(lines, i, data, rows, buffers) ==
    IF i > Len(lines) THEN [raised |-> "", rows |-> rows, buffers |-> buffers]
    ELSE IF is_block_start(lines[i]) = None
         THEN BlockLoop(lines, i + 1, data, rows, buffers)
    ELSE Flush(lines, i, data, rows, buffers, line_buffer_of(lines, i))

\* lines 797-825: the header dictionary data
LegacyHeader(text, po, po_date) ==
    SetIf(SetIf(SetIf(SetStr(SetIf(PyDict(EmptyStrs, {}), "Vendor",
                                   LegacyVendorFrom(text, 1)),
                             "PO Number", po),
                      "PO Date", po_date),
                "Vendor PO", LegacyVendorPO(text)),
          "Customer Name", LegacyCustNameFrom(text, 1))

\* line 814: datetime.strptime of the PO date raises, or lines 816-915
PODateStep(text, po, tok, po_date) ==
    IF tok # None /\ po_date = None
    THEN [raised |-> "ValueError", rows |-> <<>>, buffers |-> <<>>]
    ELSE BlockLoop(splitlines(text), 1, LegacyHeader(text, po, po_date), <<>>, <<>>)

\* lines 811-814
PODateOf(tok) == IF tok = None THEN None ELSE strptime_strftime(tok[1], MonthAbbr)

\* line 809: po_match.group(1) raises without a match, or lines 811-915
POStep(text, po, tok) ==
    IF po = "" THEN [raised |-> "AttributeError", rows |-> <<>>, buffers |-> <<>>]
    ELSE PODateStep(text, po, tok, PODateOf(tok))

\* lines 795-915: the exception the call raises ("" if none), the rows it
\* returns and the buffers it flushed
extract_data_from_text(text) == POStep(text, PONumberFrom(text, 1), DateTokenFrom(text, 1))

(***************************************************************************)
(* The documents of the model                                              *)
(***************************************************************************)

\* the item lines of the documents: two that parse, one numbered above 400,
\* one whose resolved SKU ("W") is too short, one without a metal marker, one
\* whose number is glued to the order number, and one numbered below 101
ItemPool == {"101 22/101 R62 R62LADE 14KT W",
             "102 22/102 R63 R63LADE 14KT Y",
             "401 22/401 R64 R64LADE 14KT W",
             "103 R65 14KT W",
             "104 22/104 R66 R66LADE W",
             "10522/105 R67 R67LADE 14KT W ItemType RING",
             "099 Main St"}

\* the most item lines of a document of LineTexts
MaxLines == 2

\* the most continuation lines of the block of a document of SegTexts
MaxCont == 10

\* the header lines of a purchase order, one for each pattern of
\* extract_header_info
HeaderLines == <<"Purchase From : ACME Vendor",
                 "PO # : 98765",
                 "Cust Name JOHN Gold Price",
                 "Date : Jan/05/2025",
                 "Vendor PO # VP123">>

POLine == HeaderLines[2]

ValidLine == "101 22/101 R62 R62LADE 14KT W"

\* the sequences of at most n elements of S
SeqsUpTo(S, n) == UNION {[1..m -> S] : m \in 0..n}

\* the elements of ls at the positions in S, in order
RECURSIVE SelectLines(_, _, _)
SelectLines(ls, S, i) ==
    IF i > Len(ls) THEN <<>>
    ELSE (IF i \in S THEN <<ls[i]>> ELSE <<>>) \o SelectLines(ls, S, i + 1)

\* the continuation line number j
ContLine(j) == "NOTE " \o ToStr(j)

\* a document of one page (or of none, for no lines): the text that lines
\* 553-555 of extract_data_from_pdf build from the pages
DocOf(ls) == PdfText(IF Len(ls) = 0 THEN <<>> ELSE <<JoinLines(ls)>>)

\* up to MaxLines item lines
LineTexts == {DocOf(ls) : ls \in SeqsUpTo(ItemPool, MaxLines)}

\* the item lines of the documents of POTexts
POItemPool == {ValidLine, "102 22/102 R63 R63LADE 14KT Y", "401 22/401 R64 R64LADE 14KT W"}

\* a PO # line and up to MaxLines item lines
POTexts == {DocOf(<<POLine>> \o ls) : ls \in SeqsUpTo(POItemPool, MaxLines)}

\* any subset of the header lines and one item line, and the empty text
HdrTexts == {DocOf(SelectLines(HeaderLines, S, 1) \o <<ValidLine>>) :
                 S \in SUBSET DOMAIN HeaderLines} \cup {DocOf(<<>>)}

\* a customer line and one block of up to MaxCont continuation lines
SegTexts == {DocOf(<<HeaderLines[3], ValidLine>> \o [j \in 1..n |-> ContLine(j)]) :
                 n \in 0..MaxCont}

\* an item line of the pool between two lines that parse
MidTexts == {DocOf(<<ValidLine, l, "102 22/102 R63 R63LADE 14KT Y">>) : l \in ItemPool}

\* the header lines of a second page, with other values
HeaderLines2 == <<"Purchase From : ZETA Vendor",
                  "PO # : 11111",
                  "Cust Name MARY Gold Price",
                  "Date : Feb/06/2026",
                  "Vendor PO # VP999">>

\* the header lines that the first and the second page of a two-page
\* document have
FirstPages == {DOMAIN HeaderLines, {1, 2}}
SecondPages == {DOMAIN HeaderLines2, {3, 4, 5}}

\* the text of a document of two pages, each with some header lines and an
\* item line
TwoPages(S1, S2) ==
    PdfText(<<JoinLines(SelectLines(HeaderLines, S1, 1) \o <<ValidLine>>),
              JoinLines(SelectLines(HeaderLines2, S2, 1) \o <<"102 22/102 R63 R63LADE 14KT Y">>)>>)

PageTexts == {TwoPages(S1, S2) : S1 \in FirstPages, S2 \in SecondPages}

\* the size tokens of the documents of SizeTexts
SizeTokens == {"66.0.000", "77.2.255", "7.25", "7.5", "5", "6.00"}

\* an item line with the size token after the metal color
SizeDoc(tok) == DocOf(<<ValidLine \o " " \o tok>>)

SizeTexts == {SizeDoc(tok) : tok \in SizeTokens}

\* the date tokens of the documents of DateTexts: an abbreviated month, a
\* full month name, and a token of date shape that is no date
DateTokens == {"Jan/21/2025", "January/21/2025", "Foo/21/2025"}

\* a PO # line, a header date line (if hdr), a block with the token as its
\* ship date and a quantity, and a second block
DateDoc(tok, hdr) ==
    DocOf(<<POLine>> \o (IF hdr THEN <<"Date : " \o tok>> ELSE <<>>)
              \o <<ValidLine \o " " \o tok \o " 1.0", "102 22/102 R63 R63LADE 14KT Y">>)

DateTexts == {DateDoc(tok, hdr) : tok \in DateTokens, hdr \in BOOLEAN}

\* tokens 0 to 3 of the documents of ShapeTexts: token 0 with and without
\* a vendor style stuck to the order number; token 1 plain, with a /ddd
\* boundary, with a slash and no boundary, and SKU-like; token 2 a size
\* indicator, a long SKU, a karat code and a short code
Tokens0 == {"E2831893/101LGR-RVR07619-WG4", "22/101"}
Tokens1 == {"LGR-RVR07619-WG4", "AB/123CD", "AB/CD", "R62LADE"}
Tokens2 == {"S-7.25", "R62LADE03006254W", "14KT", "R62"}
Tokens3 == {"R63LADE", "W"}

\* one block "101 <token 0> <token 1> <token 2> <token 3> 14KT W"
LayoutDoc(t0, t1, t2, t3) ==
    DocOf(<<"101 " \o t0 \o " " \o t1 \o " " \o t2 \o " " \o t3 \o " 14KT W">>)

ShapeTexts == {LayoutDoc(t0, t1, t2, t3) :
                   t0 \in Tokens0, t1 \in Tokens1, t2 \in Tokens2, t3 \in Tokens3}

\* the tokens ts with a space between them
RECURSIVE Spaced(_)
Spaced(ts) ==
    IF Len(ts) = 0 THEN "" ELSE IF Len(ts) = 1 THEN ts[1] ELSE ts[1] \o " " \o Spaced(Tail(ts))

\* one block "101 22/101 R62 R62LADE" followed by the tokens ts
TailDoc(ts) == DocOf(<<"101 22/101 R62 R62LADE " \o Spaced(ts)>>)

\* the tokens after the SKU in the documents of MetalTexts: a metal code
\* last, followed by a color, twice, and after another token
MetalTails == {<<"14KT">>, <<"14KT", "W">>, <<"PLAT">>, <<"14KT", "W", "18KT", "Y">>,
               <<"STER", "Y", "PLAT">>, <<"SILV", "7.25">>, <<"W", "14KT">>,
               <<"W", "18KT", "14KT">>}

MetalTexts == {TailDoc(ts) : ts \in MetalTails}

\* the tokens after the SKU in the documents of ScanTexts: a size after the
\* color as an S- indicator and as a bare number, a number after a quality
\* grade and after a quality prefix with its grade, an S- indicator before
\* the metal, alone and with a number after the color
ScanTails == {<<"14KT", "W", "S-7.25">>, <<"14KT", "W", "7.25">>,
              <<"14KT", "W", "F-VS2", "7.25">>, <<"14KT", "W", "EF", "VS2+EX", "7.25">>,
              <<"S-6.00", "14KT", "W">>, <<"S-6.00", "14KT", "W", "7.25">>}

ScanTexts == {TailDoc(ts) : ts \in ScanTails}

\* the tokens after the SKU in the documents of QtyTexts: a date with its
\* quantity, a date as last token, two dates, no date, and a token of date
\* shape that is no date
QtyTails == {<<"14KT", "W", "Jan/21/2025", "2.0">>, <<"14KT", "W", "Jan/21/2025">>,
             <<"14KT", "W", "Jan/21/2025", "2.0", "Feb/01/2025", "3.0">>,
             <<"14KT", "W", "2.0">>, <<"14KT", "W", "Foo/21/2025", "5">>}

QtyTexts == {TailDoc(ts) : ts \in QtyTails}

\* SKUs with keywords of two categories, in either case, and one with the
\* keyword EARRING, which contains RING
CategorySkus == {"RINGBAND01", "PENDRING", "Earring01", "CHAINSET", "NECKBRAC",
                 "X-RVE-SET", "SET123", "LGB-RVR01", "X-TXR-RVP", "A-TXE-WR"}

\* a block whose SKU is sku, whose line has the metal pattern 18KP and whose
\* description names other categories
SkuDoc(sku) ==
    DocOf(<<"101 22/101 R62 " \o sku \o " PLAT W 18KP",
            "Desc. CHAIN NECKLACE GM Min Wt 1.0 Max Wt 2.0">>)

SkuTexts == {SkuDoc(sku) : sku \in CategorySkus}

\* a block whose SKU has no keyword and whose line has the metal pattern
\* 18KP after the metal token
SuffixDoc(metal) == DocOf(<<"101 22/101 R62 R62LADE " \o metal \o " W 18KP">>)

SuffixTexts == {SuffixDoc(metal) : metal \in {"PLAT", "14KT"}}

\* descriptions with keywords of one and of two categories
Descriptions == {"PENDANT NECKLACE", "EARRING BAND", "RING", "BAND BRACELET", "CHAIN SET"}

\* a block whose SKU and line decide no category and whose description is d
DescDoc(d) ==
    DocOf(<<ValidLine, "Desc. " \o d \o " GM Min Wt 1.0 Max Wt 2.0">>)

DescTexts == {DescDoc(d) : d \in Descriptions}

\* tails whose metal marker stands inside a token, not at its start
MarkerTails == {<<"W14KT">>, <<"X-PLATE", "W">>}

MarkerTexts == {TailDoc(ts) : ts \in MarkerTails}

Texts == LineTexts \cup POTexts \cup HdrTexts \cup SegTexts \cup MidTexts \cup PageTexts
             \cup SizeTexts \cup DateTexts \cup ShapeTexts \cup MetalTexts \cup ScanTexts
             \cup QtyTexts \cup SkuTexts \cup SuffixTexts \cup DescTexts \cup MarkerTexts

\* the documents of the batches of two
BatchPool == {DocOf(<<POLine, ValidLine>>), DocOf(<<ValidLine, "102 22/102 R63 R63LADE 14KT Y">>)}

\* the batches: one document, or two documents that may be the same text
Batches == {<<t>> : t \in Texts} \cup {<<t, u>> : t \in BatchPool, u \in BatchPool}

NotCalled == <<>>

Fresh(batch) == [k \in DOMAIN batch |-> NotCalled]

\* a batch on which nothing was called yet
InitOn(batch) ==
    /\ docs = batch
    /\ header_info = Fresh(batch)
    /\ line_items = Fresh(batch)
    /\ blocks = Fresh(batch)
    /\ all_data = Fresh(batch)
    /\ data_list = Fresh(batch)

\* the threads of the web app: two POST /process requests, each followed by
\* the worker thread it starts, a GET /progress request and a POST /export
\* request without rows
RunThreads == {"run1", "run2"}
PollThread == "poll"
ExportThread == "export"
Threads == RunThreads \cup {PollThread, ExportThread}

\* the files a folder may hold: a PDF with one line item, a PDF without
\* line items, a PDF that pdfplumber cannot open, and a file that is no PDF
FilePool ==
    {[file |-> "good.pdf", readable |-> TRUE,
      pages |-> <<"Purchase From : ACME Vendor\nPO # : 98765", ValidLine>>],
     [file |-> "cover.pdf", readable |-> TRUE, pages |-> <<"Purchase From : ACME Vendor">>],
     [file |-> "scan.PDF", readable |-> FALSE, pages |-> <<>>],
     [file |-> "notes.txt", readable |-> TRUE, pages |-> <<>>]}

MaxFiles == 2

\* the listings of a folder of at most MaxFiles files, in the order of
\* os.listdir; a folder holds a file once
Folders ==
    {fs \in UNION {[1..n -> FilePool] : n \in 0..MaxFiles} :
         \A i, j \in DOMAIN fs : fs[i] = fs[j] => i = j}

\* the locals of a scan_and_extract that has not started
NoLocals == [pdf_files |-> <<>>, i |-> 0, all_rows |-> <<>>, status |-> None]

\* lines 36-49 of app.py, the state of the module after import, with a
\* request of each kind about to arrive
AppOn(files) ==
    /\ folder = files
    /\ progress_state = [statuses |-> <<>>, rows |-> <<>>, running |-> FALSE]
    /\ last_rows = <<>>
    /\ progress_lock = None
    /\ last_rows_lock = None
    /\ event_queue = <<>>
    /\ pc = [t \in Threads |-> IF t \in RunThreads THEN "request"
                               ELSE IF t = PollThread THEN "poll_lock"
                               ELSE "export_lock"]
    /\ worker = [t \in RunThreads |-> NoLocals]
    /\ snapshot = [statuses |-> None, rows |-> None, running |-> None]
    /\ export_rows = None
    /\ sync_result = None
    /\ emitted = [t \in RunThreads |-> <<>>]
    /\ queue_runs = <<>>
    /\ latest_run = None

Init == (\E batch \in Batches : InitOn(batch)) /\ AppOn(<<>>)

(***************************************************************************)
(* The calls                                                               *)
(***************************************************************************)

\* extractor.extract_header_info(text) on document k
ExtractHeaderInfo(k) ==
    /\ header_info' = [header_info EXCEPT ![k] = <<extract_header_info(docs[k])>>]
    /\ UNCHANGED <<docs, line_items, blocks, all_data, data_list>>
    /\ UNCHANGED app_vars

\* extract_line_items returned run.line_items for document k
LineItemsReturned(k, run) ==
    /\ line_items' = [line_items EXCEPT ![k] = <<run.line_items>>]
    /\ blocks' = [blocks EXCEPT ![k] = <<run.blocks>>]

\* extractor.extract_line_items(text) on document k
ExtractLineItems(k) ==
    /\ LineItemsReturned(k, ExtractRun(docs[k]))
    /\ UNCHANGED <<docs, header_info, all_data, data_list>>
    /\ UNCHANGED app_vars

\* lines 569-581 of extract_data_from_pdf once both extractions returned
PdfReturned(k, header, run) ==
    /\ header_info' = [header_info EXCEPT ![k] = <<header>>]
    /\ LineItemsReturned(k, run)
    /\ all_data' = [all_data EXCEPT ![k] = <<CombineData(header, run.line_items)>>]

\* extractor.extract_data_from_pdf(pdf_path) on document k
ExtractDataFromPdf(k) ==
    /\ PdfReturned(k, extract_header_info(docs[k]), ExtractRun(docs[k]))
    /\ UNCHANGED <<docs, data_list>>
    /\ UNCHANGED app_vars

\* extract_data_from_text(text) of app.py on document k
ExtractDataFromText(k) ==
    /\ data_list' = [data_list EXCEPT ![k] = <<extract_data_from_text(docs[k])>>]
    /\ UNCHANGED <<docs, header_info, line_items, blocks, all_data>>
    /\ UNCHANGED app_vars

Next ==
    \E k \in DOMAIN docs :
        \/ ExtractHeaderInfo(k)
        \/ ExtractLineItems(k)
        \/ ExtractDataFromPdf(k)
        \/ ExtractDataFromText(k)

Spec == Init /\ [][Next]_vars

(***************************************************************************)
(* app.py: the batch runs.  A thread takes one step per statement that    *)
(* reads or writes shared state; a `with lock:` block is entered by one   *)
(* step, left by another, and each assignment inside it is a step.        *)
(***************************************************************************)

\* pdf_extractor_final.py lines 63-65: the names ending in .pdf, any case
IsPdfName(file) == Len(file) >= 4 /\ lower(SubSeq(file, Len(file) - 3, Len(file))) = ".pdf"

\* IsPdfName tabulated on the names of the files of FilePool
PdfNamed == [file \in {pdf.file : pdf \in FilePool} |-> IsPdfName(file)]

RECURSIVE list_pdf_files(_)
list_pdf_files(files) ==
    IF Len(files) = 0 THEN <<>>
    ELSE (IF PdfNamed[files[1].file] THEN <<files[1].file>> ELSE <<>>)
             \o list_pdf_files(Tail(files))

\* the file os.path.join(folder_path, pdf_file) names
FileNamed(files, pdf_file) == CHOOSE f \in {files[i] : i \in DOMAIN files} : f.file = pdf_file

\* pdf_extractor_final.py lines 551-585: the records of one PDF; every
\* exception, such as pdfplumber failing to open the file, is caught and
\* gives []
extract_data_from_pdf(pdf) ==
    IF ~pdf.readable THEN <<>>
    ELSE CombineData(extract_header_info(PdfText(pdf.pages)),
                     extract_line_items(PdfText(pdf.pages)))

\* extract_data_from_pdf tabulated on the files of FilePool
PoolRows == [pdf \in FilePool |-> extract_data_from_pdf(pdf)]

\* lines 52-54: sse_format(event, data), the payload kept as a value
sse_format(event, data) == [event |-> event, data |-> data]

\* lines 77-81 and 237: the status of a PDF that gave rows
PdfStatus(pdf_file, rows) == [file |-> <<pdf_file>>, ok |-> Len(rows) > 0, items |-> Len(rows)]

\* lines 67 and 106: the status of a run without files
NoFilesStatus == [file |-> None, ok |-> FALSE, error |-> "No PDF files found"]

\* threading.Lock: `with lock:` is entered only when no thread holds it
Free_Always(lock) == TRUE

Free(lock) == lock = None

Goto(t, label) == pc' = [pc EXCEPT ![t] = label]

\* event_queue.put(e) by the worker of run t, for each e of events in turn
Put(t, events) ==
    /\ event_queue' = event_queue \o events
    /\ queue_runs' = queue_runs \o [k \in DOMAIN events |-> t]
    /\ emitted' = [emitted EXCEPT ![t] = @ \o events]

\* progress_state[field] = value at statement at, then on to statement next
Assign(t, at, field, value, next) ==
    /\ pc[t] = at
    /\ progress_state' = [progress_state EXCEPT ![field] = value]
    /\ Goto(t, next)

\* lines 149-154 of process_folder_path, for a folder that exists: the
\* stale events are dropped
ClearEvents(t) ==
    /\ t \in RunThreads
    /\ pc[t] = "request"
    /\ event_queue' = <<>>
    /\ queue_runs' = <<>>
    /\ Goto(t, "reset_lock")
    /\ UNCHANGED <<folder, latest_run, progress_state, last_rows, progress_lock, last_rows_lock,
                   worker, snapshot, export_rows, sync_result, emitted>>
    /\ UNCHANGED extractor_vars

\* the first statement inside each `with progress_lock:` (lines 66, 85, 99,
\* 105, 157, 301)
ProgressSection ==
    [reset_lock |-> "reset_statuses", none_lock |-> "none_statuses",
     status_lock |-> "status_append", final_lock |-> "final_rows",
     fail_lock |-> "fail_statuses", poll_lock |-> "poll_statuses"]

\* entering `with progress_lock:`
LockProgress(t) ==
    /\ pc[t] \in DOMAIN ProgressSection
    /\ Free(progress_lock)
    /\ progress_lock' = <<t>>
    /\ Goto(t, ProgressSection[pc[t]])
    /\ UNCHANGED <<folder, latest_run, progress_state, last_rows, last_rows_lock, event_queue, emitted, queue_runs,
                   worker, snapshot, export_rows, sync_result>>
    /\ UNCHANGED extractor_vars

\* lines 157-160: the reset of the polling snapshot
ResetProgress(t) ==
    /\ \/ Assign(t, "reset_statuses", "statuses", <<>>, "reset_rows")
       \/ Assign(t, "reset_rows", "rows", <<>>, "reset_running")
       \/ Assign(t, "reset_running", "running", TRUE, "reset_unlock")
    /\ UNCHANGED <<folder, latest_run, last_rows, progress_lock, last_rows_lock, event_queue, emitted, queue_runs,
                   worker, snapshot, export_rows, sync_result>>
    /\ UNCHANGED extractor_vars

\* the statement after each `with progress_lock:`: the worker thread starts
\* (line 162), the worker returns (lines 70, 101 and 108), the loop goes on
\* or ends (line 73), get_progress answers (line 307)
ProgressExit(t) ==
    [reset_unlock |-> "scan", none_unlock |-> "done", final_unlock |-> "done",
     fail_unlock |-> "done",
     status_unlock |-> IF t \in RunThreads /\ worker[t].i < Len(worker[t].pdf_files)
                       THEN "extract" ELSE "last_lock",
     poll_unlock |-> "poll_lock"]

\* leaving `with progress_lock:`
UnlockProgress(t) ==
    /\ pc[t] \in DOMAIN ProgressExit(t)
    /\ progress_lock' = None
    /\ Goto(t, ProgressExit(t)[pc[t]])
    /\ snapshot' = IF t = PollThread THEN [statuses |-> None, rows |-> None, running |-> None]
                   ELSE snapshot
    /\ latest_run' = IF pc[t] = "reset_unlock" THEN <<t>> ELSE latest_run
    /\ UNCHANGED <<folder, progress_state, last_rows, last_rows_lock, event_queue, emitted, queue_runs,
                   worker, export_rows, sync_result>>
    /\ UNCHANGED extractor_vars

\* lines 58-65 and 72 of scan_and_extract
ListPdfFiles(t) ==
    /\ pc[t] = "scan"
    /\ IF list_pdf_files(folder) = <<>>
       THEN /\ Put(t, <<sse_format("error", [message |-> "No PDF files found in the folder."]),
                        sse_format("complete", [rows |-> <<>>])>>)
            /\ Goto(t, "none_lock")
            /\ UNCHANGED worker
       ELSE /\ worker' = [worker EXCEPT ![t] = [pdf_files |-> list_pdf_files(folder), i |-> 0,
                                                all_rows |-> <<>>, status |-> None]]
            /\ Goto(t, "extract")
            /\ UNCHANGED <<event_queue, emitted, queue_runs>>
    /\ UNCHANGED <<folder, latest_run, progress_state, last_rows, progress_lock, last_rows_lock,
                   snapshot, export_rows, sync_result>>
    /\ UNCHANGED extractor_vars

\* lines 67-69: a run without files
NoPdfFiles(t) ==
    /\ \/ Assign(t, "none_statuses", "statuses",
                 Append(progress_state.statuses, NoFilesStatus), "none_rows")
       \/ Assign(t, "none_rows", "rows", <<>>, "none_running")
       \/ Assign(t, "none_running", "running", FALSE, "none_unlock")
    /\ UNCHANGED <<folder, latest_run, last_rows, progress_lock, last_rows_lock, event_queue, emitted, queue_runs,
                   worker, snapshot, export_rows, sync_result>>
    /\ UNCHANGED extractor_vars

\* lines 76-83 with the rows of the batch dropped when a PDF gives none
PdfExtracted_Reset(t, pdf_file, rows) ==
    /\ worker' = [worker EXCEPT ![t] = [pdf_files |-> worker[t].pdf_files,
                                        i |-> worker[t].i + 1,
                                        all_rows |-> IF rows = <<>> THEN <<>>
                                                     ELSE worker[t].all_rows \o rows,
                                        status |-> <<PdfStatus(pdf_file, rows)>>]]
    /\ Put(t, <<sse_format("pdf_status", PdfStatus(pdf_file, rows))>>)

\* lines 76-83 once extract_data_from_pdf returned rows for pdf_file
PdfExtracted(t, pdf_file, rows) ==
    /\ worker' = [worker EXCEPT ![t] = [pdf_files |-> worker[t].pdf_files,
                                        i |-> worker[t].i + 1,
                                        all_rows |-> worker[t].all_rows \o rows,
                                        status |-> <<PdfStatus(pdf_file, rows)>>]]
    /\ Put(t, <<sse_format("pdf_status", PdfStatus(pdf_file, rows))>>)

\* lines 73-83: the next PDF of the loop, rows being what
\* extract_data_from_pdf returns for it.  extract_data_from_pdf raises
\* nothing, so the handler of lines 87-91 is never entered
ExtractPdf(t) ==
    /\ pc[t] = "extract"
    /\ PdfExtracted(t, worker[t].pdf_files[worker[t].i + 1],
                    PoolRows[FileNamed(folder, worker[t].pdf_files[worker[t].i + 1])])
    /\ Goto(t, "status_lock")
    /\ UNCHANGED <<folder, latest_run, progress_state, last_rows, progress_lock, last_rows_lock,
                   snapshot, export_rows, sync_result>>
    /\ UNCHANGED extractor_vars

\* line 86
AppendStatus(t) ==
    /\ Assign(t, "status_append", "statuses",
              Append(progress_state.statuses, worker[t].status[1]), "status_unlock")
    /\ UNCHANGED <<folder, latest_run, last_rows, progress_lock, last_rows_lock, event_queue, emitted, queue_runs,
                   worker, snapshot, export_rows, sync_result>>
    /\ UNCHANGED extractor_vars

\* the first statement inside each `with last_rows_lock:` (lines 94, 358)
LastRowsSection == [last_lock |-> "last_set", export_lock |-> "export_read"]

\* entering `with last_rows_lock:`
LockLastRows(t) ==
    /\ pc[t] \in DOMAIN LastRowsSection
    /\ Free(last_rows_lock)
    /\ last_rows_lock' = <<t>>
    /\ Goto(t, LastRowsSection[pc[t]])
    /\ UNCHANGED <<folder, latest_run, progress_state, last_rows, progress_lock, event_queue, emitted, queue_runs,
                   worker, snapshot, export_rows, sync_result>>
    /\ UNCHANGED extractor_vars

\* line 96
SetLastRows(t) ==
    /\ pc[t] = "last_set"
    /\ last_rows' = worker[t].all_rows
    /\ Goto(t, "last_unlock")
    /\ UNCHANGED <<folder, latest_run, progress_state, progress_lock, last_rows_lock, event_queue, emitted, queue_runs,
                   worker, snapshot, export_rows, sync_result>>
    /\ UNCHANGED extractor_vars

\* line 359 of export_excel, for a request without rows
ReadLastRows(t) ==
    /\ pc[t] = "export_read"
    /\ export_rows' = <<last_rows>>
    /\ Goto(t, "export_unlock")
    /\ UNCHANGED <<folder, latest_run, progress_state, last_rows, progress_lock, last_rows_lock,
                   event_queue, emitted, queue_runs, worker, snapshot, sync_result>>
    /\ UNCHANGED extractor_vars

\* leaving `with last_rows_lock:` without the complete event of line 98
UnlockLastRows_Silent(t) ==
    /\ \/ /\ pc[t] = "last_unlock"
          /\ UNCHANGED <<event_queue, emitted, queue_runs>>
          /\ Goto(t, "final_lock")
          /\ UNCHANGED export_rows
       \/ /\ pc[t] = "export_unlock"
          /\ export_rows' = None
          /\ Goto(t, "export_lock")
          /\ UNCHANGED <<event_queue, emitted, queue_runs>>
    /\ last_rows_lock' = None
    /\ UNCHANGED <<folder, latest_run, progress_state, last_rows, progress_lock,
                   worker, snapshot, sync_result>>
    /\ UNCHANGED extractor_vars

\* leaving `with last_rows_lock:`: the worker puts the complete event (line
\* 98), export_excel answers
UnlockLastRows(t) ==
    /\ \/ /\ pc[t] = "last_unlock"
          /\ Put(t, <<sse_format("complete", [rows |-> worker[t].all_rows])>>)
          /\ Goto(t, "final_lock")
          /\ UNCHANGED export_rows
       \/ /\ pc[t] = "export_unlock"
          /\ export_rows' = None
          /\ Goto(t, "export_lock")
          /\ UNCHANGED <<event_queue, emitted, queue_runs>>
    /\ last_rows_lock' = None
    /\ UNCHANGED <<folder, latest_run, progress_state, last_rows, progress_lock,
                   worker, snapshot, sync_result>>
    /\ UNCHANGED extractor_vars

\* lines 100-101
FinishProgress(t) ==
    /\ \/ Assign(t, "final_rows", "rows", worker[t].all_rows, "final_running")
       \/ Assign(t, "final_running", "running", FALSE, "final_unlock")
    /\ UNCHANGED <<folder, latest_run, last_rows, progress_lock, last_rows_lock, event_queue, emitted, queue_runs,
                   worker, snapshot, export_rows, sync_result>>
    /\ UNCHANGED extractor_vars

\* snapshot[field] = progress_state[field] at statement at
Read(t, at, field, next) ==
    /\ pc[t] = at
    /\ snapshot' = [snapshot EXCEPT ![field] = <<progress_state[field]>>]
    /\ Goto(t, next)

\* lines 302-306 of get_progress
ReadProgress(t) ==
    /\ \/ Read(t, "poll_statuses", "statuses", "poll_rows")
       \/ Read(t, "poll_rows", "rows", "poll_running")
       \/ Read(t, "poll_running", "running", "poll_unlock")
    /\ UNCHANGED <<folder, latest_run, progress_state, last_rows, progress_lock, last_rows_lock,
                   event_queue, emitted, queue_runs, worker, export_rows, sync_result>>
    /\ UNCHANGED extractor_vars

\* lines 323-330: the loop of extract_folder_sync from the k-th PDF on
RECURSIVE SyncLoop(_, _, _, _, _)
SyncLoop(files, pdf_files, k, statuses, rows) ==
    IF k > Len(pdf_files) THEN [statuses |-> statuses, rows |-> rows]
    ELSE SyncLoop(files, pdf_files, k + 1,
                  Append(statuses,
                         PdfStatus(pdf_files[k], PoolRows[FileNamed(files, pdf_files[k])])),
                  rows \o PoolRows[FileNamed(files, pdf_files[k])])

\* lines 318-331
extract_folder_sync(files) == SyncLoop(files, list_pdf_files(files), 1, <<>>, <<>>)

\* line 346 of process_sync, for a folder that exists
ExtractFolderSync ==
    /\ sync_result = None
    /\ sync_result' = <<extract_folder_sync(folder)>>
    /\ UNCHANGED <<folder, latest_run, progress_state, last_rows, progress_lock, last_rows_lock,
                   event_queue, emitted, queue_runs, pc, worker, snapshot, export_rows>>
    /\ UNCHANGED extractor_vars

AppInit == InitOn(<<>>) /\ \E files \in Folders : AppOn(files)

AppNext ==
    \/ \E t \in Threads :
           \/ ClearEvents(t)
           \/ LockProgress(t)
           \/ ResetProgress(t)
           \/ UnlockProgress(t)
           \/ ListPdfFiles(t)
           \/ NoPdfFiles(t)
           \/ ExtractPdf(t)
           \/ AppendStatus(t)
           \/ LockLastRows(t)
           \/ SetLastRows(t)
           \/ ReadLastRows(t)
           \/ UnlockLastRows(t)
           \/ FinishProgress(t)
           \/ ReadProgress(t)
    \/ ExtractFolderSync

AppSpec == AppInit /\ [][AppNext]_vars

(***************************************************************************)
(* app.py: the runs with the /events stream, the upload worker and the     *)
(* handler of an exception in a worker.  A request, once it has arrived,   *)
(* and a worker thread, once started, are scheduled again and again.       *)
(***************************************************************************)

\* lines 31-33: the extension after the last dot is pdf, in any case
allowed_file(filename) == PdfNamed[filename]

\* lines 102-103 and 259-260: the events of a worker that caught exception e
ErrorEvents(e) == <<sse_format("error", [message |-> e]), sse_format("complete", [rows |-> <<>>])>>

\* lines 106 and 263: the status of a run that caught exception e
ErrorStatus(e) == [file |-> None, ok |-> FALSE, error |-> e]

\* lines 60-61 of scan_and_extract and lines 211-220 of
\* process_uploaded_files_worker raising an exception (os.makedirs,
\* os.listdir, tempfile.mkdtemp or file.save failing), caught at line 102 or
\* 259
Raise(t) ==
    /\ pc[t] = "scan"
    /\ Put(t, ErrorEvents("e"))
    /\ Goto(t, "fail_lock")
    /\ UNCHANGED <<folder, latest_run, progress_state, last_rows, progress_lock, last_rows_lock,
                   worker, snapshot, export_rows, sync_result>>
    /\ UNCHANGED extractor_vars

\* lines 105-108 and 262-265
FailProgress(t) ==
    /\ \/ Assign(t, "fail_statuses", "statuses",
                 Append(progress_state.statuses, ErrorStatus("e")), "fail_rows")
       \/ Assign(t, "fail_rows", "rows", <<>>, "fail_running")
       \/ Assign(t, "fail_running", "running", FALSE, "fail_unlock")
    /\ UNCHANGED <<folder, latest_run, last_rows, progress_lock, last_rows_lock, event_queue,
                   emitted, queue_runs, worker, snapshot, export_rows, sync_result>>
    /\ UNCHANGED extractor_vars

\* lines 211-225 of process_uploaded_files_worker, started by
\* process_uploaded_files for files that all passed allowed_file (lines
\* 170-186): the uploads are saved and the loop of lines 226-250, the
\* statements of lines 73-101 again, goes over all of them
SaveUploads(t) ==
    /\ pc[t] = "scan"
    /\ folder # <<>>
    /\ \A k \in DOMAIN folder : allowed_file(folder[k].file)
    /\ worker' = [worker EXCEPT ![t] = [pdf_files |-> [k \in DOMAIN folder |-> folder[k].file],
                                        i |-> 0, all_rows |-> <<>>, status |-> None]]
    /\ Goto(t, "extract")
    /\ UNCHANGED <<folder, latest_run, progress_state, last_rows, progress_lock, last_rows_lock,
                   event_queue, emitted, queue_runs, snapshot, export_rows, sync_result>>
    /\ UNCHANGED extractor_vars

\* lines 276-279 of the stream of /events: event_queue.get gives the oldest
\* event, which is sent to the client
EventsGet ==
    /\ event_queue # <<>>
    /\ event_queue' = Tail(event_queue)
    /\ queue_runs' = Tail(queue_runs)
    /\ UNCHANGED <<folder, latest_run, progress_state, last_rows, progress_lock, last_rows_lock,
                   pc, worker, emitted, snapshot, export_rows, sync_result>>
    /\ UNCHANGED extractor_vars

\* a step of the handler or of the worker of run t after the request arrived
RunStep(t) ==
    \/ LockProgress(t)
    \/ ResetProgress(t)
    \/ UnlockProgress(t)
    \/ ListPdfFiles(t)
    \/ SaveUploads(t)
    \/ Raise(t)
    \/ NoPdfFiles(t)
    \/ FailProgress(t)
    \/ ExtractPdf(t)
    \/ AppendStatus(t)
    \/ LockLastRows(t)
    \/ SetLastRows(t)
    \/ UnlockLastRows(t)
    \/ FinishProgress(t)

StreamNext ==
    \/ \E t \in RunThreads : ClearEvents(t) \/ RunStep(t)
    \/ EventsGet

\* threaded=True (line 396) and threading.Thread (lines 162, 200): every
\* handler and every worker has a thread of its own that the interpreter
\* keeps scheduling
StreamSpec == AppInit /\ [][StreamNext]_vars /\ \A t \in RunThreads : WF_vars(RunStep(t))

(***************************************************************************)
(* Properties                                                              *)
(***************************************************************************)

\* the call that writes v has returned
Called(v) == v # NotCalled

\* the line begins with three digits whose value is in lo..hi
LeadingNumberIn(line, lo, hi) ==
    /\ Len(line) >= 3
    /\ AllIn(line, 1, 3, Digit)
    /\ ToInt(SubSeq(line, 1, 3)) \in lo..hi

\* the lines of the blocks bs, block after block
RECURSIVE RawLinesOf(_)
RawLinesOf(bs) == IF Len(bs) = 0 THEN <<>> ELSE bs[1].raw_lines \o RawLinesOf(Tail(bs))

\* the lines before the first of the blocks bs
HeaderRegion(lines, bs) == IF Len(bs) = 0 THEN lines ELSE SubSeq(lines, 1, bs[1].line - 1)

\* the legacy call on document k returned its rows
Returned(k) == Called(data_list[k]) /\ data_list[k][1].raised = ""

\* C1: in both segmenters a line of the text starts a new block if and only
\* if it begins with three digits whose integer value is in [101,400]; a
\* line with a prefix outside that range, or with fewer than three leading
\* digits, never starts a block
C1_BlockStartIffInRange ==
    \A k \in DOMAIN docs :
        LET lines == splitlines(docs[k])
            InRange(i) == LeadingNumberIn(lines[i], 101, 400)
        IN  /\ Called(blocks[k]) =>
                   \A i \in DOMAIN lines :
                       (\E b \in DOMAIN blocks[k][1] : blocks[k][1][b].line = i) <=> InRange(i)
            /\ Returned(k) =>
                   \A i \in DOMAIN lines :
                       (\E b \in DOMAIN data_list[k][1].buffers :
                            data_list[k][1].buffers[b].line = i) <=> InRange(i)

\* C2: the lines of the header region followed by the raw lines of all the
\* blocks the segmenter emitted, in output order, are the lines of the text:
\* no line is dropped, duplicated or reordered, however many continuation
\* lines a block has
C2_BlocksReconstructText ==
    \A k \in DOMAIN docs :
        LET lines == splitlines(docs[k])
        IN  /\ Called(blocks[k]) =>
                   HeaderRegion(lines, blocks[k][1]) \o RawLinesOf(blocks[k][1]) = lines
            /\ Returned(k) =>
                   HeaderRegion(lines, data_list[k][1].buffers)
                       \o RawLinesOf(data_list[k][1].buffers) = lines

\* C3: the context handed to parse_line_item is the opening line of the
\* block followed only by lines that lie before the next block-start line
\* (a line that begins with three digits whose value is in [101,400]), so
\* that no field of a record comes from a line of another block
C3_ContextWithinBlock ==
    \A k \in DOMAIN docs :
        Called(blocks[k]) =>
            \A b \in DOMAIN blocks[k][1] :
                LET raw_lines == blocks[k][1][b].raw_lines
                IN  /\ blocks[k][1][b].full_context = JoinLines(raw_lines)
                    /\ \A j \in 2..Len(raw_lines) : ~LeadingNumberIn(raw_lines[j], 101, 400)

\* the three-digit prefixes of the lines that opened the blocks bs
BlockNumbers(lines, bs) == [b \in DOMAIN bs |-> SubSeq(lines[bs[b].line], 1, 3)]

\* the values of the field "Line No" of the records
LineNos(records) == [i \in DOMAIN records |-> records[i]["Line No"]]

\* xs[i..] is ys[j..] with some of its elements left out
RECURSIVE IsSubsequenceFrom(_, _, _, _)
IsSubsequenceFrom(xs, i, ys, j) ==
    IF i > Len(xs) THEN TRUE
    ELSE IF j > Len(ys) THEN FALSE
    ELSE IF xs[i] = ys[j] THEN IsSubsequenceFrom(xs, i + 1, ys, j + 1)
    ELSE IsSubsequenceFrom(xs, i, ys, j + 1)

\* C4: the records of extract_line_items are in the order of their
\* block-start lines and a block-start line gives at most one record: the
\* Line No values of the records are those of the block-start lines, in
\* order, with some left out; the legacy rows carry the numbers of the
\* blocks in order
C4_RecordsInSourceOrder ==
    \A k \in DOMAIN docs :
        LET lines == splitlines(docs[k])
        IN  /\ Called(line_items[k]) =>
                   IsSubsequenceFrom(LineNos(line_items[k][1]), 1,
                                     BlockNumbers(lines, blocks[k][1]), 1)
            /\ Returned(k) =>
                   [i \in DOMAIN data_list[k][1].rows |-> data_list[k][1].rows[i].str["Line No"]]
                       = BlockNumbers(lines, data_list[k][1].buffers)

\* C4, reached: a document whose two records have decreasing Line No values
C4_Witness ==
    \E k \in DOMAIN docs :
        /\ Called(line_items[k])
        /\ LineNos(line_items[k][1]) = <<"102", "101">>
        /\ Len(blocks[k][1]) = 2

\* the line_data of the blocks bs that gave one, in order
RECURSIVE Accepted(_)
Accepted(bs) ==
    IF Len(bs) = 0 THEN <<>>
    ELSE (IF bs[1].line_data = None THEN <<>> ELSE <<bs[1].line_data>>) \o Accepted(Tail(bs))

\* the block gave parts to resolve a SKU from (lines 132-148), and the
\* resolved Kama SKU is empty or shorter than 3 characters or the line has
\* none of the metal markers
MustReject(block) ==
    LET lm == line_match(block.raw_lines[1])
        parts == Split(lm.g2)
    IN  /\ lm # None
        /\ Len(parts) >= 3
        /\ \/ ResolveSku(parts).kama_sku = ""
           \/ Len(ResolveSku(parts).kama_sku) < 3
           \/ ~\E marker \in {"KT", "PLAT", "SILV", "STER"} : Contains(lm.g2, marker)

\* C5: a block whose resolved Kama SKU is empty or shorter than 3
\* characters, or whose first line has none of the markers KT, PLAT, SILV,
\* STER, yields no record, and the rejection is silent: the records are those
\* of the other blocks, in order
C5_InvalidBlockRejected ==
    \A k \in DOMAIN docs :
        Called(blocks[k]) =>
            /\ \A b \in DOMAIN blocks[k][1] :
                   MustReject(blocks[k][1][b]) => blocks[k][1][b].line_data = None
            /\ line_items[k][1] = Accepted(blocks[k][1])

\* C5, reached: a block with a one-character SKU between two blocks that
\* gave their records
C5_Witness ==
    \E k \in DOMAIN docs :
        /\ Called(blocks[k])
        /\ Len(blocks[k][1]) = 3
        /\ MustReject(blocks[k][1][2])
        /\ blocks[k][1][2].raw_lines = <<"103 R65 14KT W">>
        /\ LineNos(line_items[k][1]) = <<"101", "102">>

\* C6: every record of an extraction result has a Line No whose integer
\* value is in [101,400]
C6_LineNoInRange ==
    \A k \in DOMAIN docs :
        /\ Called(line_items[k]) =>
               \A i \in DOMAIN line_items[k][1] :
                   ToInt(line_items[k][1][i]["Line No"]) \in 101..400
        /\ Called(all_data[k]) =>
               \A i \in DOMAIN all_data[k][1] :
                   ToInt(all_data[k][1][i]["Line No"]) \in 101..400
        /\ Returned(k) =>
               \A i \in DOMAIN data_list[k][1].rows :
                   ToInt(data_list[k][1].rows[i].str["Line No"]) \in 101..400

C8_AllFieldsStrings ==
    \A k \in DOMAIN docs :
        /\ Called(all_data[k]) =>
               \A i \in DOMAIN all_data[k][1] :
                   /\ DOMAIN all_data[k][1][i] = HeaderKeys \cup LineItemKeys
                   /\ \A f \in HeaderKeys \cup LineItemKeys : all_data[k][1][i][f] \in STRING
        /\ Returned(k) =>
               \A i \in DOMAIN data_list[k][1].rows :
                   /\ DOMAIN data_list[k][1].rows[i].str = HeaderKeys \cup LineItemKeys
                   /\ data_list[k][1].rows[i].none = {}

\* the text has the two header lines of the example of C9
HasAcmeHeader(text) ==
    Contains(text, "Purchase From : ACME Vendor") /\ Contains(text, "PO # : 98765")

\* C9: every record of a document carries the five header values that
\* extract_header_info gave for the document, next to the seventeen fields of
\* its line item, none overwriting another; with the header lines
\* "Purchase From : ACME Vendor" and "PO # : 98765" every record, and every
\* legacy row, has Vendor ACME and PO Number 98765
C9_HeaderMergedIntoEveryRecord ==
    \A k \in DOMAIN docs :
        /\ Called(all_data[k]) =>
               /\ Len(all_data[k][1]) = Len(line_items[k][1])
               /\ \A i \in DOMAIN all_data[k][1] :
                      /\ DOMAIN all_data[k][1][i] = HeaderKeys \cup LineItemKeys
                      /\ \A h \in HeaderKeys : all_data[k][1][i][h] = header_info[k][1][h]
                      /\ \A f \in LineItemKeys : all_data[k][1][i][f] = line_items[k][1][i][f]
                      /\ HasAcmeHeader(docs[k]) =>
                             /\ all_data[k][1][i]["Vendor"] = "ACME"
                             /\ all_data[k][1][i]["PO Number"] = "98765"
        /\ Returned(k) /\ HasAcmeHeader(docs[k]) =>
               \A i \in DOMAIN data_list[k][1].rows :
                   /\ {"Vendor", "PO Number"} \subseteq DOMAIN data_list[k][1].rows[i].str
                   /\ data_list[k][1].rows[i].str["Vendor"] = "ACME"
                   /\ data_list[k][1].rows[i].str["PO Number"] = "98765"

\* C9, reached: a merged record and a legacy row of a document with the
\* ACME header
C9_Witness ==
    \E k \in DOMAIN docs :
        /\ HasAcmeHeader(docs[k])
        /\ Called(all_data[k])
        /\ Len(all_data[k][1]) > 0
        /\ all_data[k][1][1]["Vendor"] = "ACME"
        /\ all_data[k][1][1]["Kama SKU"] = "R62LADE"
        /\ Returned(k)
        /\ Len(data_list[k][1].rows) > 0

\* the field that each of the HeaderLines is for, and the label of its
\* pattern
HeaderFields == <<"Vendor", "PO Number", "Customer Name", "PO Date", "Vendor PO">>
HeaderLabels == <<"Purchase From", "PO #", "Cust Name", "Date", "Vendor PO #">>

\* C10: header extraction succeeds on every text: a field whose pattern is
\* absent is the empty string, a field whose line is present has the value
\* that its line alone gives, whichever other lines are present, and no
\* exception escapes, from extract_header_info or from the header part of
\* extract_data_from_text
C10_HeaderNeverFails ==
    \A k \in DOMAIN docs :
        /\ Called(header_info[k]) =>
               /\ DOMAIN header_info[k][1] = HeaderKeys
               /\ \A n \in DOMAIN HeaderFields :
                      /\ ~Contains(docs[k], HeaderLabels[n])
                             => header_info[k][1][HeaderFields[n]] = ""
                      /\ Contains(docs[k], HeaderLines[n] \o "\n")
                             => header_info[k][1][HeaderFields[n]]
                                    = extract_header_info(DocOf(<<HeaderLines[n]>>))[HeaderFields[n]]
        /\ Called(data_list[k]) =>
               /\ data_list[k][1].raised # "AttributeError"
               /\ ~(data_list[k][1].raised = "ValueError" /\ data_list[k][1].buffers = <<>>)

\* the values that extract_header_info reads from HeaderLines and from
\* HeaderLines2, in the order of HeaderFields
FirstValues == <<"ACME", "98765", "JOHN Gold Price", "05-01-2025", "VP123">>
SecondValues == <<"ZETA", "11111", "MARY Gold Price", "06-02-2026", "VP999">>

\* C11: when a header label occurs on several pages, each header field has
\* the value of its first occurrence: the one of the first page if the first
\* page has the line, else the one of the second page; a later occurrence
\* never changes it
C11_FirstHeaderOccurrenceWins ==
    \A k \in DOMAIN docs :
        Called(header_info[k]) =>
            \A S1 \in FirstPages, S2 \in SecondPages :
                docs[k] = TwoPages(S1, S2) =>
                    \A n \in DOMAIN HeaderFields :
                        header_info[k][1][HeaderFields[n]]
                            = IF n \in S1 THEN FirstValues[n]
                              ELSE IF n \in S2 THEN SecondValues[n]
                              ELSE ""

\* C11, reached: the header of a document whose two pages both have all
\* five header lines
C11_Witness ==
    \E k \in DOMAIN docs :
        /\ docs[k] = TwoPages(DOMAIN HeaderLines, DOMAIN HeaderLines2)
        /\ Called(header_info[k])
        /\ header_info[k][1]["PO Number"] = "98765"

\* the three-case rule of C12 on a token of digits and dots: three
\* all-digit parts give the last digit of part 1, a dot and the first two
\* digits of part 3 padded with 0; one dot gives two decimals; else the token
RuleSize(tok) ==
    LET d1 == Find(tok, ".", 1)
        d2 == IF d1 = 0 THEN 0 ELSE Find(tok, ".", d1 + 1)
        d3 == IF d2 = 0 THEN 0 ELSE Find(tok, ".", d2 + 1)
    IN  IF d2 # 0 /\ d3 = 0 /\ d1 > 1 /\ d2 > d1 + 1 /\ d2 < Len(tok)
           /\ AllIn(tok, 1, d1 - 1, Digit) /\ AllIn(tok, d1 + 1, d2 - 1, Digit)
           /\ AllIn(tok, d2 + 1, Len(tok), Digit)
        THEN Ch(tok, d1 - 1) \o "." \o SubSeq(From(tok, d2 + 1) \o "0", 1, 2)
        ELSE IF d1 # 0 /\ d2 = 0 /\ FloatArgOk(tok) THEN Format2f(tok)
        ELSE tok

\* C12: the Size of a record is its size token normalized by the three-case
\* rule: 66.0.000 gives 6.00, 7.25 stays 7.25, 5 stays 5
C12_SizeThreeCaseRule ==
    \A k \in DOMAIN docs :
        Called(line_items[k]) =>
            \A tok \in SizeTokens :
                docs[k] = SizeDoc(tok) =>
                    /\ Len(line_items[k][1]) = 1
                    /\ line_items[k][1][1]["Size"] = RuleSize(tok)

\* the normalization of C13 on the tokens of DateTokens
RuleDate(tok) ==
    IF tok \in {"Jan/21/2025", "January/21/2025"} THEN "21-01-2025" ELSE tok

\* C13: a date token Mon/DD/YYYY with an abbreviated or a full month name
\* becomes DD-MM-YYYY, as the ship date of a line item (in both extractors)
\* and as the PO date of the header, and a token that parses under neither
\* form is kept unchanged
C13_DateBothMonthForms ==
    \A k \in DOMAIN docs :
        \A tok \in DateTokens, hdr \in BOOLEAN :
            docs[k] = DateDoc(tok, hdr) =>
                /\ Called(line_items[k]) =>
                       /\ Len(line_items[k][1]) = 2
                       /\ line_items[k][1][1]["Ship Date"] = RuleDate(tok)
                /\ Called(header_info[k]) /\ hdr =>
                       header_info[k][1]["PO Date"] = RuleDate(tok)
                /\ Returned(k) =>
                       /\ Len(data_list[k][1].rows) = 2
                       /\ "Ship Date" \in DOMAIN data_list[k][1].rows[1].str
                       /\ data_list[k][1].rows[1].str["Ship Date"] = RuleDate(tok)

\* C14: a token of date shape that cannot be parsed never aborts extraction:
\* its block yields its record with the token kept verbatim as the date, and
\* the other block and the header of the document are extracted too, by
\* FinalPDFExtractor and by the legacy extractor
C14_BadDateNeverAborts ==
    \A k \in DOMAIN docs :
        \A hdr \in BOOLEAN :
            docs[k] = DateDoc("Foo/21/2025", hdr) =>
                /\ Called(line_items[k]) =>
                       /\ LineNos(line_items[k][1]) = <<"101", "102">>
                       /\ line_items[k][1][1]["Ship Date"] = "Foo/21/2025"
                /\ Called(header_info[k]) =>
                       /\ header_info[k][1]["PO Number"] = "98765"
                       /\ hdr => header_info[k][1]["PO Date"] = "Foo/21/2025"
                /\ Called(data_list[k]) =>
                       /\ data_list[k][1].raised = ""
                       /\ Len(data_list[k][1].rows) = 2
                       /\ "Ship Date" \in DOMAIN data_list[k][1].rows[1].str
                       /\ data_list[k][1].rows[1].str["Ship Date"] = "Foo/21/2025"

\* the only record of document k
OnlyRecord(k) == line_items[k][1][1]

\* C15: when token 0 is an order number <prefix>/<3 digits> with a non-empty
\* remainder stuck to it, the record has the order number <prefix>/<3 digits>,
\* the remainder as vendor style and token 1 as Kama SKU, whatever tokens 1,
\* 2 and 3 are
C15_LayoutAPriority ==
    \A k \in DOMAIN docs : Called(line_items[k]) =>
        \A t1 \in Tokens1, t2 \in Tokens2, t3 \in Tokens3 :
            docs[k] = LayoutDoc("E2831893/101LGR-RVR07619-WG4", t1, t2, t3) =>
                /\ Len(line_items[k][1]) = 1
                /\ OnlyRecord(k)["Line No"] = "101"
                /\ OnlyRecord(k)["Order Number"] = "E2831893/101"
                /\ OnlyRecord(k)["Vendor Style"] = "LGR-RVR07619-WG4"
                /\ OnlyRecord(k)["Kama SKU"] = t1

\* a block in layout (a) whose token 1 has a /ddd boundary of its own, as in
\* layout (b), and whose token 2 is a size indicator has been parsed
C15_Witness ==
    \E k \in DOMAIN docs :
        /\ docs[k] = LayoutDoc("E2831893/101LGR-RVR07619-WG4", "AB/123CD", "S-7.25", "R63LADE")
        /\ Called(line_items[k])
        /\ Len(line_items[k][1]) = 1
        /\ OnlyRecord(k)["Order Number"] = "E2831893/101"
        /\ OnlyRecord(k)["Kama SKU"] = "AB/123CD"

\* C19: in layout (b) (token 0 a plain order number, token 1 with a slash,
\* no LG prefix and a /ddd boundary inside), the record keeps token 0 as its
\* order number, has the part of token 1 after the boundary as vendor style
\* and token 2 as Kama SKU
C19_LayoutBKeepsOrderNumber ==
    \A k \in DOMAIN docs : Called(line_items[k]) =>
        \A t2 \in Tokens2, t3 \in Tokens3 :
            docs[k] = LayoutDoc("22/101", "AB/123CD", t2, t3) =>
                /\ Len(line_items[k][1]) = 1
                /\ OnlyRecord(k)["Order Number"] = "22/101"
                /\ OnlyRecord(k)["Vendor Style"] = "CD"
                /\ OnlyRecord(k)["Kama SKU"] = t2

\* the shape chain of C20 on tokens 1, 2 and 3 of a block with at least
\* four tokens: the vendor style and the Kama SKU it prescribes
RuleChain(t1, t2, t3) ==
    IF t2 = "S-7.25" THEN <<t1, t3>>
    ELSE IF Len(t2) > Len(t1) /\ HasUpper(t2) THEN <<t1, t2>>
    ELSE IF HasUpper(t1) /\ t1 # "14KT" /\ t2 = "14KT" THEN <<t1, t1>>
    ELSE <<t1, t2>>

\* C20: when neither layout (a) nor layout (b) applies, also when token 1
\* has a slash and no /ddd boundary, the vendor style and the Kama SKU of
\* the record are the ones of the shape chain: size indicator, longer
\* token 2, karat code after an SKU, default
C20_ShapeChainOrder ==
    \A k \in DOMAIN docs : Called(line_items[k]) =>
        \A t1 \in Tokens1 \ {"AB/123CD"}, t2 \in Tokens2, t3 \in Tokens3 :
            docs[k] = LayoutDoc("22/101", t1, t2, t3) /\ Len(line_items[k][1]) = 1 =>
                /\ OnlyRecord(k)["Order Number"] = "22/101"
                /\ <<OnlyRecord(k)["Vendor Style"], OnlyRecord(k)["Kama SKU"]>>
                       = RuleChain(t1, t2, t3)

\* the partition a segmenter made: per block, the position of its opening
\* line and its lines
PartitionOf(bs) == [b \in DOMAIN bs |-> <<bs[b].line, bs[b].raw_lines>>]

\* C18: the look-ahead segmentation of extract_line_items and the
\* flush-on-block-start segmentation of extract_data_from_text make the same
\* partition of every text: the same block-start lines and, per block, the
\* same continuation lines
C18_SegmentersAgree ==
    \A k \in DOMAIN docs :
        Called(blocks[k]) /\ Returned(k) =>
            PartitionOf(blocks[k][1]) = PartitionOf(data_list[k][1].buffers)

\* the documents of the folder, in input order: its files but the one that
\* is no PDF
RECURSIVE Documents(_)
Documents(files) ==
    IF Len(files) = 0 THEN <<>>
    ELSE (IF files[1].file = "notes.txt" THEN <<>> ELSE <<files[1]>>) \o Documents(Tail(files))

\* the number of line items of a document of FilePool
ItemsOf(doc) == IF doc.file = "good.pdf" THEN 1 ELSE 0

\* the status a document is due: its name, its success flag, its item count
StatusDue(doc) == [file |-> <<doc.file>>, ok |-> ItemsOf(doc) > 0, items |-> ItemsOf(doc)]

StatusesDue(files) == [k \in DOMAIN Documents(files) |-> StatusDue(Documents(files)[k])]

\* the rows are one row of good.pdf per occurrence of good.pdf in the folder
RowsDue(files, rows) ==
    /\ Len(rows) = Cardinality({k \in DOMAIN files : files[k].file = "good.pdf"})
    /\ \A r \in DOMAIN rows : rows[r]["Line No"] = "101" /\ rows[r]["PO Number"] = "98765"

\* run t is the only run that has started
OnlyRun(t) == pc[t] # "request" /\ \A u \in RunThreads \ {t} : pc[u] = "request"

\* run t has reset the progress state and is in or after its batch loop
InBatch(t) == pc[t] \notin {"request", "reset_lock", "reset_statuses", "reset_rows",
                            "reset_running", "reset_unlock", "scan"}

\* xs is the beginning of ys
IsPrefix(xs, ys) == Len(xs) <= Len(ys) /\ xs = SubSeq(ys, 1, Len(xs))

InProgressSection(t) ==
    pc[t] \in {"reset_statuses", "reset_rows", "reset_running", "reset_unlock",
               "none_statuses", "none_rows", "none_running", "none_unlock",
               "status_append", "status_unlock",
               "final_rows", "final_running", "final_unlock",
               "poll_statuses", "poll_rows", "poll_running", "poll_unlock"}

\* the statements inside a `with last_rows_lock:` block
InLastRowsSection(t) == pc[t] \in {"last_set", "last_unlock", "export_read", "export_unlock"}

\* thread t has made some and not all of the assignments of an update of
\* several fields of progress_state
MidUpdate(t) == pc[t] \in {"reset_rows", "reset_running", "none_rows", "none_running",
                           "final_running"}

\* no two threads are inside blocks of the same lock, and what get_progress
\* has read is the progress state as it is, with no update half made
Serialized ==
    /\ \A t, u \in Threads :
           t # u => /\ ~(InProgressSection(t) /\ InProgressSection(u))
                    /\ ~(InLastRowsSection(t) /\ InLastRowsSection(u))
    /\ InProgressSection(PollThread) => \A t \in Threads : ~MidUpdate(t)
    /\ pc[PollThread] = "poll_unlock" =>
           snapshot = [statuses |-> <<progress_state.statuses>>,
                       rows |-> <<progress_state.rows>>,
                       running |-> <<progress_state.running>>]

\* a step that changes progress_state or last_rows is a step of the thread
\* that holds the lock of that structure, inside its block
MutationUnderLock ==
    /\ progress_state' # progress_state =>
           \E t \in Threads : /\ progress_lock = <<t>> /\ progress_lock' = <<t>>
                              /\ InProgressSection(t) /\ pc'[t] # pc[t]
    /\ last_rows' # last_rows =>
           \E t \in Threads : /\ last_rows_lock = <<t>> /\ last_rows_lock' = <<t>>
                              /\ InLastRowsSection(t) /\ pc'[t] # pc[t]

MetalCodes == {"14KT", "18KT", "PLAT", "SILV", "STER"}

\* the position of the first metal code among the tokens ts
FirstCode(ts) == CHOOSE i \in DOMAIN ts : ts[i] \in MetalCodes /\ \A j \in 1..(i - 1) : ts[j] \notin MetalCodes

\* C21: Metal KT is the first token, from the left, of karat or material
\* shape, and Metal Color is the token right after it: it is empty exactly
\* when the metal token is the last token of the line, and a later metal
\* token never replaces the first
C21_FirstMetalAndColor ==
    \A k \in DOMAIN docs : Called(line_items[k]) =>
        \A ts \in MetalTails : docs[k] = TailDoc(ts) =>
            /\ Len(line_items[k][1]) = 1
            /\ OnlyRecord(k)["Metal KT"] = ts[FirstCode(ts)]
            /\ OnlyRecord(k)["Metal Color"]
                   = IF FirstCode(ts) = Len(ts) THEN "" ELSE ts[FirstCode(ts) + 1]
            /\ OnlyRecord(k)["Metal Color"] = "" <=> FirstCode(ts) = Len(ts)

\* a line with two metal tokens has been parsed, and its record has the
\* first of them
C21_Witness ==
    \E k \in DOMAIN docs :
        /\ docs[k] = TailDoc(<<"14KT", "W", "18KT", "Y">>)
        /\ Called(line_items[k])
        /\ OnlyRecord(k)["Metal KT"] = "14KT"
        /\ OnlyRecord(k)["Metal Color"] = "W"

\* the size C22 prescribes for the documents of ScanTexts: the first S-
\* indicator or number after the color unless a quality token comes first,
\* else the S- indicator before the metal
SizeDue(ts) ==
    IF ts \in {<<"14KT", "W", "S-7.25">>, <<"14KT", "W", "7.25">>,
               <<"S-6.00", "14KT", "W", "7.25">>} THEN "7.25"
    ELSE IF ts = <<"S-6.00", "14KT", "W">> THEN "6.00"
    ELSE ""

\* C22: the size is the first S-<number> or bare number token after the
\* metal color, normalized, unless a diamond-quality token comes before it;
\* only when that scan gives nothing is it the nearest S-<number> token
\* before the metal; a number after a diamond-quality token is never the
\* size
C22_SizeScanOrder ==
    \A k \in DOMAIN docs : Called(line_items[k]) =>
        \A ts \in ScanTails : docs[k] = TailDoc(ts) =>
            /\ Len(line_items[k][1]) = 1
            /\ OnlyRecord(k)["Size"] = SizeDue(ts)

\* the token has the shape Mon/DD/YYYY of the date tokens of QtyTails
DateShaped(tok) == Len(tok) = 11 /\ SubSeq(tok, 4, 4) = "/" /\ SubSeq(tok, 7, 7) = "/"

\* the quantity C23 prescribes: the token after the first date-shaped token
QtyDue(ts) ==
    IF \E i \in DOMAIN ts : DateShaped(ts[i])
    THEN LET i == CHOOSE i \in DOMAIN ts :
                      DateShaped(ts[i]) /\ \A j \in 1..(i - 1) : ~DateShaped(ts[j])
         IN  IF i = Len(ts) THEN "" ELSE ts[i + 1]
    ELSE ""

\* C23: in every record Req Date equals Ship Date and a non-empty Qty comes
\* with a non-empty Ship Date; Qty is the token right after the first
\* date-shaped token of the first line, and is empty when there is no date
\* token or the date token is the last token
C23_QtyFollowsFirstDate ==
    \A k \in DOMAIN docs : Called(line_items[k]) =>
        /\ \A r \in DOMAIN line_items[k][1] :
               /\ line_items[k][1][r]["Req Date"] = line_items[k][1][r]["Ship Date"]
               /\ line_items[k][1][r]["Qty"] # "" => line_items[k][1][r]["Ship Date"] # ""
        /\ \A ts \in QtyTails : docs[k] = TailDoc(ts) =>
               /\ Len(line_items[k][1]) = 1
               /\ OnlyRecord(k)["Qty"] = QtyDue(ts)
               /\ OnlyRecord(k)["Ship Date"] = "" <=> ts = <<"14KT", "W", "2.0">>

\* a line with two date tokens has been parsed: the quantity is the one
\* after the first date
C23_Witness ==
    \E k \in DOMAIN docs :
        /\ docs[k] = TailDoc(<<"14KT", "W", "Jan/21/2025", "2.0", "Feb/01/2025", "3.0">>)
        /\ Called(line_items[k])
        /\ OnlyRecord(k)["Qty"] = "2.0"
        /\ OnlyRecord(k)["Req Date"] = "21-01-2025"

\* the order of the categories in the SKU step
CategoryOrder == <<"BAND", "BRACELET", "NECKLACE", "PENDANT", "RING", "EARRING", "CHAIN", "SET">>

\* the keywords that a category has in the SKU step
KeywordsOf(category) ==
    CASE category = "BAND" -> {"BAND"}
      [] category = "BRACELET" -> {"BRAC", "BRACELET"}
      [] category = "NECKLACE" -> {"NECK", "NECKLACE"}
      [] category = "PENDANT" -> {"PEND", "PENDANT", "-RVP"}
      [] category = "RING" -> {"RING", "-WR", "-RVR", "-TXR"}
      [] category = "EARRING" -> {"EARR", "EARRING", "-TXE", "-RVE"}
      [] category = "CHAIN" -> {"CHAIN"}
      [] category = "SET" -> {"SET"}

\* the text, whatever its case, contains a keyword of the n-th category, or
\* starts with LGB- for BAND
HasKeyword(text, n) ==
    \/ \E w \in KeywordsOf(CategoryOrder[n]) : Contains(upper(text), w)
    \/ CategoryOrder[n] = "BAND" /\ StartsWith(upper(text), "LGB-")

\* the first category, in the order of the SKU step, with a keyword in text
CategoryDue(text) ==
    CategoryOrder[CHOOSE n \in DOMAIN CategoryOrder :
                      HasKeyword(text, n) /\ \A m \in 1..(n - 1) : ~HasKeyword(text, m)]

\* C24: the SKU step returns the first category, in the order BAND,
\* BRACELET, NECKLACE, PENDANT, RING, EARRING, CHAIN, SET, that has a
\* keyword in the SKU, whatever the case of the SKU, and neither the metal
\* pattern of the line nor the description changes that category
C24_SkuStepFirstMatch ==
    \A k \in DOMAIN docs : Called(line_items[k]) =>
        \A sku \in CategorySkus : docs[k] = SkuDoc(sku) =>
            /\ Len(line_items[k][1]) = 1
            /\ OnlyRecord(k)["Kama SKU"] = sku
            /\ OnlyRecord(k)["Desc"] = "CHAIN NECKLACE"
            /\ OnlyRecord(k)["Category"] = CategoryDue(sku)

\* a SKU with the keywords of RING and of EARRING, in lower case, has been
\* classified as RING beside a metal pattern and a description of other
\* categories
C24_Witness ==
    \E k \in DOMAIN docs :
        /\ docs[k] = SkuDoc("Earring01")
        /\ Called(line_items[k])
        /\ OnlyRecord(k)["Category"] = "RING"

\* C25: when the SKU decides no category and the line has a pattern of two
\* digits, K and letters such as 18KP, the category is the one of the
\* letters of that pattern (P: PENDANT), also when an ordinary karat token
\* such as 14KT stands before the pattern
C25_MetalPatternSuffix ==
    \A k \in DOMAIN docs : Called(line_items[k]) =>
        \A metal \in {"PLAT", "14KT"} : docs[k] = SuffixDoc(metal) =>
            /\ Len(line_items[k][1]) = 1
            /\ OnlyRecord(k)["Category"] = "PENDANT"

\* C26: the description step has the priority of the SKU step: a description
\* with keywords of two categories gets the one that comes first in the
\* order BAND, BRACELET, NECKLACE, PENDANT, RING, EARRING, CHAIN, SET, the
\* category the same text gets as a SKU
C26_DescStepSamePriority ==
    \A k \in DOMAIN docs : Called(line_items[k]) =>
        \A d \in Descriptions : docs[k] = DescDoc(d) =>
            /\ Len(line_items[k][1]) = 1
            /\ OnlyRecord(k)["Desc"] = d
            /\ OnlyRecord(k)["Category"] = CategoryDue(d)

\* C30: every record of parse_line_item has a non-empty Metal KT: a first
\* line that passes the metal marker validation has a token of the shape of
\* a karat or of a material
C30_MetalKTNeverEmpty ==
    \A k \in DOMAIN docs : Called(line_items[k]) =>
        \A n \in DOMAIN line_items[k][1] : line_items[k][1][n]["Metal KT"] # ""

\* the worker thread of run t is still processing: it has been started and
\* has not yet made its last assignment, running = False
Processing(t) ==
    pc[t] \in {"scan", "none_lock", "none_statuses", "none_rows", "none_running",
               "extract", "status_lock", "status_append", "status_unlock",
               "last_lock", "last_set", "last_unlock",
               "final_lock", "final_rows", "final_running"}

\* a request handler is inside its reset of the progress state
Resetting(t) == pc[t] \in {"reset_statuses", "reset_rows", "reset_running"}

\* C28: in every reachable state, also when /process is called while an
\* earlier run still works, running is False only if no worker thread is
\* still processing, and then, once a run was started, statuses and rows are
\* exactly those of the run started last (every run being over the same
\* folder: the statuses and rows that folder is due, each once)
C28_RunningFalseMeansIdle ==
    (progress_state.running = FALSE /\ \A t \in RunThreads : ~Resetting(t)) =>
        /\ \A t \in RunThreads : ~Processing(t)
        /\ (\E t \in RunThreads : pc[t] = "done") =>
               /\ progress_state.statuses =
                      (IF Documents(folder) = <<>> THEN <<NoFilesStatus>>
                       ELSE StatusesDue(folder))
               /\ RowsDue(folder, progress_state.rows)

\* the events run t has put are those of a finished run: one complete event,
\* the last; before it, on the failure path (no PDF listed), one error event,
\* the complete event carrying no row; otherwise one pdf_status event per
\* PDF, in order
RunComplete(t) ==
    /\ emitted[t] # <<>>
    /\ emitted[t][Len(emitted[t])].event = "complete"
    /\ \A k \in 1..(Len(emitted[t]) - 1) : emitted[t][k].event # "complete"
    /\ IF worker[t].pdf_files = <<>>
       THEN /\ Len(emitted[t]) = 2
            /\ emitted[t][1].event = "error"
            /\ emitted[t][2].data.rows = <<>>
       ELSE /\ Len(emitted[t]) = Len(worker[t].pdf_files) + 1
            /\ \A k \in 1..Len(worker[t].pdf_files) :
                   /\ emitted[t][k].event = "pdf_status"
                   /\ emitted[t][k].data.file = <<worker[t].pdf_files[k]>>
            /\ emitted[t][Len(emitted[t])].data.rows = worker[t].all_rows

\* the worker of run t is leaving its last `with progress_lock:` block
Leaving(t) == pc[t] \in {"none_unlock", "fail_unlock", "final_unlock"}

\* C27: every background run that /process started, of the folder worker or
\* of the upload worker, eventually finishes; by then it has put exactly
\* one complete event, after all its pdf_status events, and has set running
\* to False; on the failure path the complete event follows an error event
\* and carries no row
C27_EveryRunFinishes ==
    /\ [](\A t \in RunThreads :
              Leaving(t) => progress_state.running = FALSE /\ RunComplete(t))
    /\ \A t \in RunThreads : (pc[t] = "scan") ~> (pc[t] = "done" /\ RunComplete(t))

\* a run over two PDFs has finished with three events while the other run,
\* accepted after it started, has caught an exception and not yet finished
C27_Witness ==
    \E t, u \in RunThreads :
        /\ pc[t] = "done" /\ Len(emitted[t]) = 3
        /\ latest_run = <<u>> /\ u # t
        /\ pc[u] = "fail_statuses"

\* C29: once /process has accepted a new run, every event the /events
\* stream reads from the queue was put by that run, never by an earlier one,
\* also when the worker of the earlier run is still executing
C29_OnlyEventsOfNewRun ==
    [][EventsGet => (latest_run # None => queue_runs[1] = latest_run[1])]_vars
====
